---- MODULE Spec2Model ----
(***************************************************************************)
(* Statement field extraction engine of CreditCardParser.                  *)
(*                                                                         *)
(* backend/new.py  : OCR based engine (detect_provider, find_first_amount, *)
(*                   extract_label_amount_lines, parse_statement_text,     *)
(*                   parse_pdf, main)                                      *)
(* backend/tp.py   : text-layer engine (detect_issuer, find_first_match,   *)
(*                   extract_by_label_line, parse_statement_text)          *)
(*                                                                         *)
(* A text is a sequence of lines, a line a sequence of tokens separated by *)
(* one space.  A token is an issuer marker, a field label, a plain word or *)
(* a value chunk.  Value chunks are sequences of one-character strings and *)
(* the regular expressions that read values (CURR_ANY, AMOUNT, DATE_NUM)   *)
(* are evaluated on them character by character; marker, label and word    *)
(* tokens contain no digit, '$', '(' or '-', so those expressions never    *)
(* match inside them.  Label and marker regular expressions are tables of  *)
(* the tokens they match.  Amounts are integers in cents (every candidate  *)
(* CURR_ANY yields has at most two decimals, so a Python float holding it  *)
(* and its sums and differences are exact to the cent within the bounds).  *)
(***************************************************************************)
EXTENDS Integers, Sequences, FiniteSets, TLC

\* Python's None where a string is expected (a string is a sequence of
\* one-character strings, so this is none of them)
None == <<"None">>

\* Python's None where an issuer name is expected
NoName == "None"

\* Optional[float]: <<>> is None, <<x>> the number x (in cents)
NoFloat == <<>>

\* an exception on its way up the call stack, where a string and where a
\* float is expected
Exc == <<"Exception">>
ExcF == <<0, 0>>

\* ------------------------------------------------------------------------
\* Characters and strings (sequences of one-character strings)
\* ------------------------------------------------------------------------
Digits == {"0", "1", "2", "3", "4", "5", "6", "7", "8", "9"}

DigitVal(ch) ==
    CASE ch = "0" -> 0 [] ch = "1" -> 1 [] ch = "2" -> 2 [] ch = "3" -> 3
      [] ch = "4" -> 4 [] ch = "5" -> 5 [] ch = "6" -> 6 [] ch = "7" -> 7
      [] ch = "8" -> 8 [] ch = "9" -> 9

DigitChar(d) ==
    CASE d = 0 -> "0" [] d = 1 -> "1" [] d = 2 -> "2" [] d = 3 -> "3"
      [] d = 4 -> "4" [] d = 5 -> "5" [] d = 6 -> "6" [] d = 7 -> "7"
      [] d = 8 -> "8" [] d = 9 -> "9"

\* character at position p, "" beyond the end
At(s, p) == IF p >= 1 /\ p <= Len(s) THEN s[p] ELSE ""

IsDigitAt(s, p) == At(s, p) \in Digits

\* s[a .. b-1]
Slice(s, a, b) == IF b <= a THEN <<>> ELSE SubSeq(s, a, b - 1)

RECURSIVE SkipWhile(_, _, _)
\* first position >= p whose character is not in set cs
SkipWhile(s, p, cs) ==
    IF At(s, p) \in cs THEN SkipWhile(s, p + 1, cs) ELSE p

RECURSIVE SkipBack(_, _, _)
\* last position <= p whose character is not in set cs (0 if none)
SkipBack(s, p, cs) ==
    IF p >= 1 /\ s[p] \in cs THEN SkipBack(s, p - 1, cs) ELSE p

\* str.strip(chars)
StripChars(s, cs) ==
    Slice(s, SkipWhile(s, 1, cs), SkipBack(s, Len(s), cs) + 1)

\* str.lstrip(chars)
LStripChars(s, cs) == Slice(s, SkipWhile(s, 1, cs), Len(s) + 1)

\* str.replace(ch, "")
Remove(s, cs) == SelectSeq(s, LAMBDA ch : ch \notin cs)

RECURSIVE StrLess(_, _)
\* Python's s < t on strings, Ord being the code point order of the
\* characters a Money or Date string can hold
StrLess(s, t) ==
    LET Ord(ch) ==
            CASE ch = " " -> 32 [] ch = "$" -> 36 [] ch = "(" -> 40
              [] ch = ")" -> 41 [] ch = "," -> 44 [] ch = "-" -> 45
              [] ch = "." -> 46 [] ch = "/" -> 47
              [] ch \in Digits -> 48 + DigitVal(ch)
              [] OTHER -> 79
    IN  IF t = <<>> THEN FALSE
        ELSE IF s = <<>> THEN TRUE
        ELSE IF Ord(Head(s)) # Ord(Head(t)) THEN Ord(Head(s)) < Ord(Head(t))
        ELSE StrLess(Tail(s), Tail(t))

\* ------------------------------------------------------------------------
\* Regular expressions that read a value, on one value chunk
\* ------------------------------------------------------------------------
\* \b between position e-1 and e; \w on the characters a value chunk can
\* hold is a digit or the letter O
Boundary(s, e) ==
    (At(s, e - 1) \in Digits \cup {"O"}) # (At(s, e) \in Digits \cup {"O"})

\* the first end in ends that satisfies the trailing \b (any end if the
\* pattern has none), 0 if there is none
PickEnd(s, ends, wantB) ==
    LET HeadOr0(es) == IF es = <<>> THEN 0 ELSE es[1]
    IN  HeadOr0(SelectSeq(ends, LAMBDA e : ~wantB \/ Boundary(s, e)))

\* an end e (0: no match), kept if the trailing \b (if the pattern has one)
\* holds there
BoundedEnd(s, e, wantB) ==
    IF e # 0 /\ (wantB => Boundary(s, e)) THEN e ELSE 0

Opt(s, p, ch) == IF At(s, p) = ch THEN p + 1 ELSE p

RECURSIVE UpToDigits(_, _, _)
\* position after at most n digits from p
UpToDigits(s, p, n) ==
    IF n >= 1 /\ IsDigitAt(s, p) THEN UpToDigits(s, p + 1, n - 1) ELSE p

\* \$?\s*-?\(? from p, the optional head of CURR_ANY and AMOUNT: the
\* position after it
SignEnd(s, p) ==
    Opt(s, Opt(s, SkipWhile(s, Opt(s, p, "$"), {" "}), "-"), "(")

\* \d[\d,]*\.?\d{0,2}\)? at p: the position after it, 0 without a digit at p
CurrDigitsEnd(s, p) ==
    IF ~IsDigitAt(s, p) THEN 0
    ELSE Opt(s, UpToDigits(s, Opt(s, SkipWhile(s, p + 1, Digits \cup {","}),
                                  "."), 2), ")")

RECURSIVE CurrAnyFrom(_, _)
\* [m.group(0).strip() for m in CURR_ANY.finditer(s)] from position p on.
\* CURR_ANY = \$?\s*-?\(?\d[\d,]*\.?\d{0,2}\)? matched at p ends at e, 0
\* when it does not match there (every quantifier is greedy and what follows
\* each is optional or disjoint, so no backtracking)
CurrAnyFrom(s, p) ==
    LET Matches(e) ==
            IF e = 0 THEN CurrAnyFrom(s, p + 1)
            ELSE <<StripChars(Slice(s, p, e), {" "})>> \o CurrAnyFrom(s, e)
    IN  IF p > Len(s) THEN <<>>
        ELSE Matches(CurrDigitsEnd(s, SignEnd(s, p)))

RECURSIVE GroupsEnd(_, _)
\* (?:,\d{3})* from p
GroupsEnd(s, p) ==
    IF At(s, p) = "," /\ IsDigitAt(s, p + 1) /\ IsDigitAt(s, p + 2)
                      /\ IsDigitAt(s, p + 3)
    THEN GroupsEnd(s, p + 4) ELSE p

\* \d{1,3}(?:,\d{3})* at p: the position after it, 0 without a digit at p
GroupedEnd(s, p) ==
    IF IsDigitAt(s, p) THEN GroupsEnd(s, UpToDigits(s, p, 3)) ELSE 0

\* the mandatory (?:\.\d{2}) at q, where the digits before it ended (q = 0:
\* there were none): the position after it, else 0
Dec2End(s, q) ==
    IF q # 0 /\ At(s, q) = "." /\ IsDigitAt(s, q + 1) /\ IsDigitAt(s, q + 2)
    THEN q + 3 ELSE 0

\* first alternative of AMOUNT (new.py):
\*   \$?\s*-?\(?\d{1,3}(?:,\d{3})*(?:\.\d{2})
\* the decimals are mandatory, so the digit run and the groups are forced
AmountAlt1End(s, p) == Dec2End(s, GroupedEnd(s, SignEnd(s, p)))

\* second alternative of AMOUNT (new.py): \d+(?:\.\d{2})?\)?
\* the ends it can reach, in the order the regex engine tries them: those
\* of (?:\.\d{2})?\)? at d, where the run \d+ ended, longest first
AmountAlt2Ends(s, p) ==
    LET EndsAt(d) ==
            (IF At(s, d) = "." /\ IsDigitAt(s, d + 1) /\ IsDigitAt(s, d + 2)
             THEN (IF At(s, d + 3) = ")" THEN <<d + 4>> ELSE <<>>)
                  \o <<d + 3>>
             ELSE <<>>)
            \o (IF At(s, d) = ")" THEN <<d + 1>> ELSE <<>>) \o <<d>>
    IN  IF ~IsDigitAt(s, p) THEN <<>> ELSE EndsAt(SkipWhile(s, p, Digits))

\* the alternation: the end e1 of the first alternative if it matched, else
\* the first of the ends of the second, 0 if none
FirstEnd(e1, ends) ==
    IF e1 # 0 THEN e1 ELSE IF ends # <<>> THEN ends[1] ELSE 0

\* AMOUNT\b matched at p (the '^\s*Label\s+AMOUNT\b' patterns)
AmountBEnd(s, p) ==
    FirstEnd(BoundedEnd(s, AmountAlt1End(s, p), TRUE),
             SelectSeq(AmountAlt2Ends(s, p), LAMBDA e : Boundary(s, e)))

RECURSIVE FirstAmountFrom(_, _)
\* the lazy '.*?AMOUNT' inside one chunk: the end of the first AMOUNT match
\* that starts at or after p, 0 when the chunk holds none; e is the end of
\* AMOUNT matched at p with nothing required after it
FirstAmountFrom(s, p) ==
    LET Found(e) == IF e # 0 THEN e ELSE FirstAmountFrom(s, p + 1)
    IN  IF p > Len(s) THEN 0
        ELSE Found(FirstEnd(AmountAlt1End(s, p), AmountAlt2Ends(s, p)))


\* ------------------------------------------------------------------------
\* Money: normalisation, numeric value, formatting (new.py)
\* ------------------------------------------------------------------------
RECURSIVE DropO0(_)
\* s.replace("O0.00", "0.00")
DropO0(s) ==
    IF s = <<>> THEN <<>>
    ELSE IF Len(s) >= 5 /\ SubSeq(s, 1, 5) = <<"O", "0", ".", "0", "0">>
         THEN <<"0", ".", "0", "0">> \o DropO0(SubSeq(s, 6, Len(s)))
         ELSE <<Head(s)>> \o DropO0(Tail(s))

\* if re.fullmatch(r"\d{1,3}(?:,\d{3})*", s): s = s + ".00"
AddCents(s) ==
    IF GroupedEnd(s, 1) = Len(s) + 1 THEN s \o <<".", "0", "0">> ELSE s

\* s.strip("() ").replace(" ", "").lstrip("$"), the two OCR replacements
\* (the second is s.replace("O", "0")) and the ".00"
Unsigned(s) ==
    LET OToZero(t) == [i \in 1..Len(t) |-> IF t[i] = "O" THEN "0" ELSE t[i]]
    IN  AddCents(OToZero(DropO0(
            LStripChars(Remove(StripChars(s, {"(", ")", " "}), {" "}),
                        {"$"}))))

\* _normalize_amount(raw); the raw candidates hold no CR/DR suffix.
\* neg = s.startswith("(") and s.endswith(")"); out = f"${s}", with "-" in
\* front if neg
normalize_amount(raw) ==
    LET Signed(s) ==
            (IF s # <<>> /\ Head(s) = "(" /\ s[Len(s)] = ")"
             THEN <<"-">> ELSE <<>>) \o <<"$">> \o Unsigned(s)
    IN  IF raw = None \/ raw = <<>> THEN None
        ELSE Signed(StripChars(raw, {" "}))

RECURSIVE DigitsVal(_, _)
\* value of a run of digits, most significant first
DigitsVal(s, acc) ==
    IF s = <<>> THEN acc ELSE DigitsVal(Tail(s), 10 * acc + DigitVal(Head(s)))

\* the value in cents of the string s whose digits start at a (after the
\* sign) and whose integer part ends at d: sign sgn, integer part ip and
\* fraction fp, whole saying that the three make up the string
FloatParts(s, a, d) ==
    LET FloatValue(sgn, ip, fp, whole) ==
            IF ~whole \/ (ip = <<>> /\ fp = <<>>) \/ Len(fp) > 2
            THEN ExcF
            ELSE <<sgn * (100 * DigitsVal(ip, 0)
                          + (IF Len(fp) = 1 THEN 10 ELSE 1)
                            * DigitsVal(fp, 0))>>
    IN  FloatValue(IF a = 2 THEN 0 - 1 ELSE 1,
                   Slice(s, a, d),
                   Slice(s, Opt(s, d, "."),
                         SkipWhile(s, Opt(s, d, "."), Digits)),
                   SkipWhile(s, Opt(s, d, "."), Digits) = Len(s) + 1)

\* float(t) on a string of the characters a candidate can hold, in cents:
\* [sign] digits [. digits] with at least one digit and at most two
\* decimals; anything else raises ValueError
ParseFloat(t) ==
    LET FloatFrom(s, a) == FloatParts(s, a, SkipWhile(s, a, Digits))
    IN  FloatFrom(StripChars(t, {" "}),
                  IF At(StripChars(t, {" "}), 1) = "-" THEN 2 ELSE 1)

\* try: return x / except Exception: return None
Caught(x) == IF x = ExcF THEN NoFloat ELSE x

\* _money_to_float without the try/except: the ValueError leaves it
money_to_float_nocatch(v) ==
    IF v = None \/ v = <<>> THEN NoFloat
    ELSE ParseFloat(Remove(v, {"$", ","}))

\* _money_to_float(v): try: return float(...) except Exception: return None
money_to_float(v) ==
    IF v = None \/ v = <<>> THEN NoFloat
    ELSE Caught(ParseFloat(Remove(v, {"$", ","})))

RECURSIVE GroupThousands(_)
\* the ',' grouping of "{:,}" on a non-negative integer
GroupThousands(n) ==
    IF n < 10 THEN <<DigitChar(n)>>
    ELSE IF n < 100 THEN <<DigitChar(n \div 10), DigitChar(n % 10)>>
    ELSE IF n < 1000
         THEN <<DigitChar(n \div 100), DigitChar((n \div 10) % 10),
                DigitChar(n % 10)>>
    ELSE GroupThousands(n \div 1000) \o <<",">> \o
         <<DigitChar((n \div 100) % 10), DigitChar((n \div 10) % 10),
           DigitChar(n % 10)>>

\* _fmt_money(x) = "${:,.2f}".format(x), x in cents
fmt_money(x) ==
    LET a == IF x < 0 THEN 0 - x ELSE x
    IN  <<"$">> \o (IF x < 0 THEN <<"-">> ELSE <<>>)
        \o GroupThousands(a \div 100)
        \o <<".", DigitChar((a \div 10) % 10), DigitChar(a % 10)>>

\* ------------------------------------------------------------------------
\* Candidate scoring (new.py _best_amount_for_label)
\* ------------------------------------------------------------------------
ScoreUnit == 1000000

\* the body of the loop without the avoid_zero and min_value filters
ScoredValue_nofilter(raw, n, v, rest, penal, avoid_zero, min_value) ==
    IF v = NoFloat \/ v = ExcF THEN rest
    ELSE <<(<<v[1], n>>)>> \o rest

\* the body of the loop for candidate raw with n = _normalize_amount(raw)
\* and v = _money_to_float(n); rest is what the later candidates add.
\* Score is the score of a surviving candidate, in millionths; penal says
\* the label (the pattern text) contains "limit" or "line"
ScoredValue(raw, n, v, rest, penal, avoid_zero, min_value) ==
    LET Has(ch) == \E i \in 1..Len(raw) : raw[i] = ch
        Score(x) ==
            (IF Has("$") THEN ScoreUnit \div 2 ELSE 0)
            + (IF Has(",") THEN ScoreUnit ELSE 0)
            + (IF x < 5 * ScoreUnit THEN x ELSE 5 * ScoreUnit)
            - (IF penal /\ x < 50000 THEN 3 * ScoreUnit ELSE 0)
    IN  IF v = NoFloat \/ v = ExcF THEN rest
        ELSE IF avoid_zero /\ v[1] = 0 THEN rest
        ELSE IF v[1] < min_value THEN rest
        ELSE <<(<<Score(v[1]), n>>)>> \o rest

RECURSIVE Scored(_, _, _, _)
\* the list 'scored' built by the loop over the candidates
Scored(cands, penal, avoid_zero, min_value) ==
    IF cands = <<>> THEN <<>>
    ELSE ScoredValue(Head(cands), normalize_amount(Head(cands)),
                     money_to_float(normalize_amount(Head(cands))),
                     Scored(Tail(cands), penal, avoid_zero, min_value),
                     penal, avoid_zero, min_value)

\* _best_amount_for_label without the sort: the first surviving candidate
best_amount_for_label_first(penal, cands, avoid_zero, min_value) ==
    LET FirstOf(sc) == IF sc = <<>> THEN None ELSE sc[1][2]
    IN  FirstOf(Scored(cands, penal, avoid_zero, min_value))

\* _best_amount_for_label: scored.sort(reverse=True) by the (score, n)
\* tuple order, return scored[0][1], None if scored is empty.  An exception
\* leaving _money_to_float would leave the loop and the call.
best_amount_for_label(penal, cands, avoid_zero, min_value) ==
    LET PairLess(a, b) ==
            a[1] < b[1] \/ (a[1] = b[1] /\ StrLess(a[2], b[2]))
        TopScored(sc) ==
            IF sc = <<>> THEN None
            ELSE sc[CHOOSE i \in 1..Len(sc) :
                        \A j \in 1..Len(sc) : ~PairLess(sc[i], sc[j])][2]
    IN  IF \E i \in 1..Len(cands) :
               money_to_float(normalize_amount(cands[i])) = ExcF
        THEN Exc
        ELSE TopScored(Scored(cands, penal, avoid_zero, min_value))


\* ------------------------------------------------------------------------
\* Tokens, lines, texts
\* ------------------------------------------------------------------------
Issuer(n) == [k |-> "issuer", s |-> n, c |-> <<>>]
Label(n)  == [k |-> "label", s |-> n, c |-> <<>>]
Word(n)   == [k |-> "word", s |-> n, c |-> <<>>]
Val(c)    == [k |-> "val", s |-> "", c |-> c]

\* tokens that are one word of 3 to 9 letters ([A-Za-z]{3,9} of DATE_TEXT2)
SingleWords == {"BofA", "Chase", "AMEX", "Citi", "Citibank", "CommBank", "Page"}

RECURSIVE Flatten(_, _)
\* the tokens of the lines from line i on, in text order, each with its
\* line number and its position in the line
Flatten(text, i) ==
    IF i > Len(text) THEN <<>>
    ELSE [j \in 1..Len(text[i]) |-> [t |-> text[i][j], line |-> i, pos |-> j]]
         \o Flatten(text, i + 1)

RECURSIVE CandsOf(_)
\* CURR_ANY.finditer over a run of tokens: only value chunks hold digits
CandsOf(toks) ==
    IF toks = <<>> THEN <<>>
    ELSE (IF Head(toks).k = "val" THEN CurrAnyFrom(Head(toks).c, 1) ELSE <<>>)
         \o CandsOf(Tail(toks))

\* ------------------------------------------------------------------------
\* Issuer detection
\* ------------------------------------------------------------------------
\* new.py PROVIDERS: issuer name and the markers its patterns match
PROVIDERS ==
    << [name |-> "Bank of America", pats |-> {"Bank of America", "BofA"}],
       [name |-> "Chase", pats |-> {"Chase", "JPMorgan Chase"}],
       [name |-> "American Express", pats |-> {"American Express", "AMEX"}],
       [name |-> "Citi", pats |-> {"Citi", "Citibank"}],
       [name |-> "Capital One", pats |-> {"Capital One"}],
       [name |-> "Commonwealth Bank",
        pats |-> {"Commonwealth Bank", "CommBank"}] >>

\* tp.py ISSUER_DETECTORS
ISSUER_DETECTORS ==
    << [name |-> "Bank of America",
        pats |-> {"Bank of America", "BofA", "B A N K O F A M E R I C A"}],
       [name |-> "Chase", pats |-> {"Chase", "JPMorgan Chase"}],
       [name |-> "American Express", pats |-> {"American Express", "AMEX"}],
       [name |-> "Citi", pats |-> {"Citi", "Citibank"}],
       [name |-> "Capital One", pats |-> {"Capital One"}] >>

\* any(p.search(text) for p in pats)
AnyMatch(pats, text) ==
    \E i \in 1..Len(text) : \E j \in 1..Len(text[i]) :
        text[i][j].k = "issuer" /\ text[i][j].s \in pats

\* detection by the marker that stands first in the text
FirstProvider_textorder(table, i, text) ==
    LET toks == Flatten(text, 1)
        js   == {j \in 1..Len(toks) :
                   /\ toks[j].t.k = "issuer"
                   /\ \E e \in i..Len(table) : toks[j].t.s \in table[e].pats}
    IN  IF js = {} THEN NoName
        ELSE LET j == CHOOSE j \in js : \A k \in js : j <= k
                 e == CHOOSE e \in i..Len(table) :
                         toks[j].t.s \in table[e].pats
             IN  table[e].name

RECURSIVE FirstProvider(_, _, _)
\* the loop 'for name, pats in table: if any(...): return name'
FirstProvider(table, i, text) ==
    IF i > Len(table) THEN NoName
    ELSE IF AnyMatch(table[i].pats, text) THEN table[i].name
    ELSE FirstProvider(table, i + 1, text)

detect_provider(text) == FirstProvider(PROVIDERS, 1, text)

detect_issuer(text) == FirstProvider(ISSUER_DETECTORS, 1, text)


\* ------------------------------------------------------------------------
\* Pattern tables of new.py.  A pattern is
\*   f   : "A" for  ^\s*<label>\s+<value>\b      (label first on its line,
\*                                                value in the next token)
\*         "B" for  \b<label>\b.*?<value>        (first value anywhere after)
\*         "L" for a label of a label-then-window matcher
\*   L   : the labels the label part matches
\*   P   : the pairs of adjacent labels it matches across (\s* between them)
\*   pen : the pattern text contains "limit" or "line" (re.I)
\*   v   : the value shapes, "amt", "num" (DATE_NUM), "txt" (DATE_TEXT1),
\*         "any" (DATE_NUM|DATE_TEXT1|DATE_TEXT2)
\* ------------------------------------------------------------------------
Pat(f, L, pen, v) == [f |-> f, L |-> L, P |-> {}, pen |-> pen, v |-> v]

CreditAvailablePairs ==
    {<<"Available Credit", "Available Credit">>,
     <<"Available Credit", "Available Funds">>}

PATTERNS ==
    [available_credit |->
        << Pat("A", {"Available Credit", "Available Funds"}, TRUE, "amt"),
           Pat("B", {"Available Credit", "Available Funds"}, TRUE, "amt"),
           Pat("A", {}, FALSE, "amt"),
           [Pat("B", {}, FALSE, "amt") EXCEPT !.P = CreditAvailablePairs],
           Pat("A", {}, FALSE, "amt"),
           Pat("B", {}, FALSE, "amt") >>,
     payment_due_date |->
        << Pat("A", {"Payment Due Date"}, FALSE, "num"),
           Pat("B", {"Payment Due Date"}, FALSE, "any"),
           Pat("B", {"Payment Due Date"}, FALSE, "any"),
           Pat("B", {}, FALSE, "any"),
           Pat("B", {}, FALSE, "any"),
           Pat("B", {}, FALSE, "any"),
           Pat("B", {"Statement ends"}, FALSE, "any") >>,
     new_balance |->
        << Pat("A", {"New Balance", "New Balance Total"}, FALSE, "amt"),
           Pat("B", {"New Balance", "New Balance Total"}, FALSE, "amt"),
           Pat("A", {"Statement Balance"}, FALSE, "amt"),
           Pat("B", {"Statement Balance"}, FALSE, "amt"),
           Pat("A", {"Closing balance"}, FALSE, "amt"),
           Pat("B", {"Closing balance"}, FALSE, "amt"),
           Pat("B", {"Closing balance"}, FALSE, "amt") >>,
     credit_limit |->
        << Pat("A", {"Credit Limit"}, TRUE, "amt"),
           Pat("B", {"Credit Limit"}, TRUE, "amt"),
           Pat("B", {"Approved Limit"}, TRUE, "amt"),
           Pat("B", {}, TRUE, "amt") >>]

NoPatterns ==
    [available_credit |-> <<>>, payment_due_date |-> <<>>,
     new_balance |-> <<>>, credit_limit |-> <<>>]

\* a lookup that finds no issuer
ISSUER_SPECIFIC_none(issuer) == NoPatterns

\* ISSUER_SPECIFIC.get(issuer, {}).get(field, [])
ISSUER_SPECIFIC(issuer) ==
    CASE issuer = "Bank of America" ->
        [payment_due_date |->
            << Pat("A", {"Payment Due Date"}, FALSE, "num"),
               Pat("A", {"Payment Due Date"}, FALSE, "txt") >>,
         new_balance |->
            << Pat("A", {"New Balance Total"}, FALSE, "amt"),
               Pat("B", {"New Balance Total"}, FALSE, "amt") >>,
         credit_limit |->
            << Pat("A", {"Credit Limit"}, TRUE, "amt"),
               Pat("B", {"Credit Limit"}, TRUE, "amt") >>,
         available_credit |->
            << Pat("A", {"Available Credit"}, FALSE, "amt"),
               Pat("B", {"Available Credit"}, FALSE, "amt") >>]
      [] issuer = "Chase" ->
        [payment_due_date |->
            << Pat("A", {"Payment Due Date"}, FALSE, "num") >>,
         new_balance |-> << Pat("A", {"New Balance"}, FALSE, "amt") >>,
         credit_limit |-> << Pat("A", {"Credit Limit"}, TRUE, "amt") >>,
         available_credit |->
            << Pat("A", {"Available Credit"}, FALSE, "amt"),
               Pat("B", {"Available Credit"}, FALSE, "amt") >>]
      [] issuer = "Commonwealth Bank" ->
        [new_balance |->
            << Pat("A", {"Closing balance"}, FALSE, "amt"),
               Pat("B", {"Closing balance"}, FALSE, "amt") >>,
         available_credit |->
            << Pat("A", {"Available Funds"}, FALSE, "amt"),
               Pat("B", {"Available Funds"}, FALSE, "amt") >>,
         payment_due_date |->
            << Pat("B", {"Statement ends"}, FALSE, "any"),
               Pat("B", {}, FALSE, "any") >>,
         credit_limit |->
            << Pat("B", {"Approved Limit"}, TRUE, "amt"),
               Pat("B", {"Credit Limit"}, TRUE, "amt") >>]
      [] OTHER -> NoPatterns

\* label sets of the label-then-window matchers
LBL_BOA_LIMIT  == << Pat("L", {"Credit Limit"}, TRUE, "amt") >>
LBL_BOA_AVAIL  == << Pat("L", {"Available Credit"}, FALSE, "amt") >>
LBL_BOA_NEWBAL == << Pat("L", {"New Balance Total"}, FALSE, "amt") >>
LBL_BOA_DUE    == << Pat("L", {"Payment Due Date"}, FALSE, "any") >>

LBL_AVAIL ==
    << Pat("L", {"Available Credit", "Available Funds"}, TRUE, "amt"),
       [Pat("L", {}, FALSE, "amt") EXCEPT !.P = CreditAvailablePairs],
       Pat("L", {}, FALSE, "amt") >>
LBL_NEWBAL ==
    << Pat("L", {"New Balance", "New Balance Total"}, FALSE, "amt"),
       Pat("L", {"Statement Balance"}, FALSE, "amt"),
       Pat("L", {"Closing balance"}, FALSE, "amt"),
       Pat("L", {"Closing balance"}, FALSE, "amt") >>
LBL_LIMIT ==
    << Pat("L", {"Credit Limit"}, TRUE, "amt"),
       Pat("L", {"Approved Limit"}, TRUE, "amt") >>
LBL_DUEDATE ==
    << Pat("L", {"Payment Due Date"}, FALSE, "any"),
       Pat("L", {"Payment Due Date"}, FALSE, "any"),
       Pat("L", {}, FALSE, "any"),
       Pat("L", {}, FALSE, "any"),
       Pat("L", {}, FALSE, "any"),
       Pat("L", {"Statement ends"}, FALSE, "any") >>

\* ------------------------------------------------------------------------
\* Locating a label in a run of flattened tokens
\* ------------------------------------------------------------------------
\* re.search reports the leftmost match: the least index of a set of
\* indices at which a match starts, 0 if there is none
LeastOr0(js) ==
    IF js = {} THEN 0 ELSE CHOOSE j \in js : \A k \in js : j <= k

\* 'if best: return best', else what the rest of the loop returns
OrElse(best, rest) == IF best # None THEN best ELSE rest

\* the label part of pattern p matches starting in token j of toks: 0 if
\* not, else the index of the token in which the match ends
LabelEnd(p, toks, j) ==
    IF toks[j].t.k = "label" /\ toks[j].t.s \in p.L THEN j
    ELSE IF /\ j < Len(toks)
            /\ toks[j].t.k = "label" /\ toks[j + 1].t.k = "label"
            /\ <<toks[j].t.s, toks[j + 1].t.s>> \in p.P
         THEN j + 1
    ELSE 0

\* a label search that takes the start of the tokens for a label
FirstLabel_any(p, toks) == IF toks = <<>> THEN 0 ELSE 1

\* indices of toks from which the label part of p matches, 0 if none: the
\* leftmost one
FirstLabel(p, toks) ==
    LeastOr0({j \in 1..Len(toks) : LabelEnd(p, toks, j) # 0})


\* ------------------------------------------------------------------------
\* DirectCapture of an amount (new.py find_first_amount)
\* ------------------------------------------------------------------------
\* form "A": the label token of the leftmost match, 0 if no match
AnchoredAmountAt(p, toks) ==
    LeastOr0({j \in 1..(Len(toks) - 1) :
                 /\ toks[j].pos = 1
                 /\ toks[j].t.k = "label" /\ toks[j].t.s \in p.L
                 /\ toks[j + 1].t.k = "val"
                 /\ AmountBEnd(toks[j + 1].t.c, 1) # 0})

\* the token in which the leftmost match of the label part of p ends, 0
\* if it matches nowhere
FirstLabelEnd(p, toks) ==
    IF FirstLabel(p, toks) = 0 THEN 0
    ELSE LabelEnd(p, toks, FirstLabel(p, toks))

\* form "B": the first chunk after token je that holds an AMOUNT, 0 if
\* there is none or the label did not match (je = 0)
LazyAmountAt(toks, je) ==
    IF je = 0 THEN 0
    ELSE LeastOr0({k \in (je + 1)..Len(toks) :
                      /\ toks[k].t.k = "val"
                      /\ FirstAmountFrom(toks[k].t.c, 1) # 0})

\* p.search(text) for an amount pattern: the text of the value chunk that
\* m.group(0) ends with (the only digits of the match), None if no match.
\* Form "A": what AMOUNT\b matches in the chunk after label token j; form
\* "B": the chunk k up to the end of its first AMOUNT
AmountMatch(p, toks) ==
    LET AnchoredAmountIn(j) ==
            IF j = 0 THEN None
            ELSE Slice(toks[j + 1].t.c, 1, AmountBEnd(toks[j + 1].t.c, 1))
        LazyAmountIn(k) ==
            IF k = 0 THEN None
            ELSE Slice(toks[k].t.c, 1, FirstAmountFrom(toks[k].t.c, 1))
    IN  IF p.f = "A"
        THEN AnchoredAmountIn(AnchoredAmountAt(p, toks))
        ELSE LazyAmountIn(LazyAmountAt(toks, FirstLabelEnd(p, toks)))

RECURSIVE FindFirstAmountFrom(_, _, _)
\* the loop 'for p in patterns' from pattern i on: for the match m of
\* pattern p, nums = CURR_ANY.findall(m.group(0)) and
\* _best_amount_for_label(p.pattern, nums); None when p did not match
FindFirstAmountFrom(toks, patterns, i) ==
    LET BestOfMatch(p, m) ==
            IF m = None THEN None
            ELSE best_amount_for_label(p.pen, CurrAnyFrom(m, 1), TRUE, 0)
    IN  IF i > Len(patterns) THEN None
        ELSE OrElse(BestOfMatch(patterns[i], AmountMatch(patterns[i], toks)),
                    FindFirstAmountFrom(toks, patterns, i + 1))

find_first_amount(text, patterns) ==
    FindFirstAmountFrom(Flatten(text, 1), patterns, 1)

\* ------------------------------------------------------------------------
\* LabelWindow for an amount (new.py extract_label_amount_lines)
\* ------------------------------------------------------------------------
RECURSIVE LinesToks(_, _, _)
\* the tokens of lines a..b of the text (those that exist)
LinesToks(lines, a, b) ==
    IF a > b \/ a > Len(lines) THEN <<>>
    ELSE lines[a] \o LinesToks(lines, a + 1, b)

\* tokens of one line wrapped as Flatten wraps them
LineToks(line) ==
    [j \in 1..Len(line) |-> [t |-> line[j], line |-> 0, pos |-> j]]

\* _collect_amounts_near(lines, i, m.end(), lines_ahead), the label match
\* ending in token je of line i
collect_amounts_near(lines, i, je, lines_ahead) ==
    CandsOf(SubSeq(lines[i], je + 1, Len(lines[i])))
    \o CandsOf(LinesToks(lines, i + 1, i + lines_ahead))

RECURSIVE LabelAmountScan(_, _, _, _, _, _, _)
\* the two nested loops, at line i and label regex r; LabelAmountAt is the
\* body of the inner loop for label regex lr, whose match in the line ends
\* in token je (0: 'if not m: continue')
LabelAmountScan(lines, lbls, i, r, lines_ahead, avoid_zero, min_value) ==
    LET LabelAmountAt(lr, je) ==
            IF je = 0 THEN None
            ELSE best_amount_for_label(lr.pen,
                     collect_amounts_near(lines, i, je, lines_ahead),
                     avoid_zero, min_value)
    IN  IF i > Len(lines) THEN None
        ELSE IF r > Len(lbls)
             THEN LabelAmountScan(lines, lbls, i + 1, 1, lines_ahead,
                                  avoid_zero, min_value)
        ELSE OrElse(LabelAmountAt(lbls[r],
                                  FirstLabelEnd(lbls[r], LineToks(lines[i]))),
                    LabelAmountScan(lines, lbls, i, r + 1, lines_ahead,
                                    avoid_zero, min_value))

extract_label_amount_lines(text, lbls, lines_ahead, avoid_zero, min_value) ==
    LabelAmountScan(text, lbls, 1, 1, lines_ahead, avoid_zero, min_value)


\* ------------------------------------------------------------------------
\* Dates (new.py)
\* ------------------------------------------------------------------------
\* \d{1,2} at p: position after, else 0
MonthEnd(s, p) == IF IsDigitAt(s, p) THEN UpToDigits(s, p, 2) ELSE 0

\* /\d{1,2} at a, where the month ended (0: no month): position after,
\* else 0
SlashDayEnd(s, a) ==
    IF a # 0 /\ At(s, a) = "/" /\ IsDigitAt(s, a + 1)
    THEN UpToDigits(s, a + 1, 2) ELSE 0

\* \d{2,4} at b, followed by \b or not: position after (the longest year
\* the trailing \b accepts), else 0
YearEnd(s, b, wantB) ==
    PickEnd(s, SelectSeq(<<b + 4, b + 3, b + 2>>,
                         LAMBDA e : e <= UpToDigits(s, b, 4)), wantB)

\* the separator sep, characters of ws and \d{2,4} at a, where the day
\* ended (0: no day): position after, else 0
SepYearEnd(s, a, sep, ws, wantB) ==
    IF a # 0 /\ At(s, a) = sep
    THEN YearEnd(s, SkipWhile(s, a + 1, ws), wantB)
    ELSE 0

\* \d{1,2}/\d{1,2}/\d{2,4} matched at p (DATE_NUM of new.py, DATE_NUMERIC
\* of tp.py), followed by \b or not: position after, else 0
DateNumEnd(s, p, wantB) ==
    SepYearEnd(s, SlashDayEnd(s, MonthEnd(s, p)), "/", {}, wantB)

RECURSIVE DateNumFrom(_, _)
\* leftmost DATE_NUM match in a chunk from p on: <<start, end>> or <<>>
DateNumFrom(s, p) ==
    IF p > Len(s) THEN <<>>
    ELSE IF DateNumEnd(s, p, FALSE) # 0 THEN <<p, DateNumEnd(s, p, FALSE)>>
    ELSE DateNumFrom(s, p + 1)

\* the chunk starts with \d{1,2},\s*\d{2,4} (the tail of DATE_TEXT1 and of
\* DATE_MIXED, whose [A-Za-z]{3,9} then matches the end of the word before
\* it), followed by \b or not: position after, else 0
Text1TailEnd(s, wantB) ==
    SepYearEnd(s, MonthEnd(s, 1), ",", {" "}, wantB)

\* the date of month m, day d, year y as strftime("%m/%d/%y") prints it,
\* Exc if there is no such date
StrfDate(m, d, y) ==
    LET DaysInMonth ==
            IF m \in {4, 6, 9, 11} THEN 30
            ELSE IF m = 2
                 THEN (IF (y % 4 = 0 /\ y % 100 # 0) \/ y % 400 = 0
                       THEN 29 ELSE 28)
            ELSE 31
        TwoDigits(n) == <<DigitChar((n \div 10) % 10), DigitChar(n % 10)>>
    IN  IF m \in 1..12 /\ y >= 1 /\ d >= 1 /\ d <= DaysInMonth
        THEN TwoDigits(m) \o <<"/">> \o TwoDigits(d) \o <<"/">>
             \o TwoDigits(y % 100)
        ELSE Exc

\* strptime on a string s whose first digit run ends at a and whose second
\* ends at b: the digit runs ms, ds, ys of a string that has the shape
\* ms/ds/ys or has not.  %y: 00..68 are 2000..2068, 69..99 are 1969..1999;
\* %Y as written
StrpYear(s, a, b) ==
    LET FullYear(ys) ==
            IF Len(ys) = 2
            THEN (IF DigitsVal(ys, 0) <= 68 THEN 2000 ELSE 1900)
                 + DigitsVal(ys, 0)
            ELSE DigitsVal(ys, 0)
        StrpParts(ms, ds, ys, shaped) ==
            IF /\ shaped
               /\ Len(ms) \in {1, 2} /\ Len(ds) \in {1, 2}
               /\ Len(ys) \in {2, 4}
            THEN StrfDate(DigitsVal(ms, 0), DigitsVal(ds, 0), FullYear(ys))
            ELSE Exc
    IN  StrpParts(Slice(s, 1, a), Slice(s, a + 1, b),
                  Slice(s, b + 1, SkipWhile(s, b + 1, Digits)),
                  /\ At(s, a) = "/" /\ At(s, b) = "/"
                  /\ SkipWhile(s, b + 1, Digits) = Len(s) + 1)

\* _try_parse_date(s): datetime.strptime(s, f) tried with the ten formats,
\* then strftime("%m/%d/%y"); each ValueError is caught inside the loop
\* ('except ValueError: continue'), then 'return None' after the loop.  No
\* token is a month name, so only "%m/%d/%y" and "%m/%d/%Y" can succeed.
try_parse_date(s) ==
    LET NoneIfRaised(x) == IF x = Exc THEN None ELSE x
    IN  NoneIfRaised(StrpYear(s, SkipWhile(s, 1, Digits),
                              SkipWhile(s, SkipWhile(s, 1, Digits) + 1,
                                        Digits)))

\* the date-shaped candidate that starts in token j of toks, if any:
\* [str, last, e] = its text, the token it ends in, the position after it
\* there; <<>> if none starts in token j.  In a value chunk, m being the
\* leftmost DATE_NUM match in the chunk: that match, else a DATE_TEXT2 (day,
\* word, year) that starts with the last digits of the chunk.  In a token
\* that ends with three letters in a row: a DATE_TEXT1.
DateCandAt(toks, j) ==
    LET DateCandIn(m) ==
            IF m # <<>>
            THEN <<[str |-> Slice(toks[j].t.c, m[1], m[2]), last |-> j,
                    e |-> m[2]]>>
            ELSE IF /\ j + 2 <= Len(toks)
                    /\ IsDigitAt(toks[j].t.c, Len(toks[j].t.c))
                    /\ toks[j + 1].t.k # "val"
                    /\ toks[j + 1].t.s \in SingleWords
                    /\ toks[j + 2].t.k = "val"
                    /\ UpToDigits(toks[j + 2].t.c, 1, 4) >= 3
            THEN <<[str |-> <<"d", " ", "m", " ", "y">>,
                    last |-> j + 2,
                    e |-> UpToDigits(toks[j + 2].t.c, 1, 4)]>>
            ELSE <<>>
    IN  IF toks[j].t.k = "val"
        THEN DateCandIn(DateNumFrom(toks[j].t.c, 1))
        ELSE IF /\ j + 1 <= Len(toks)
                /\ toks[j].t.k # "val"
                /\ toks[j].t.s # "B A N K O F A M E R I C A"
                /\ toks[j + 1].t.k = "val"
                /\ Text1TailEnd(toks[j + 1].t.c, FALSE) # 0
        THEN <<[str |-> <<"m", " ">>
                        \o Slice(toks[j + 1].t.c, 1,
                                 Text1TailEnd(toks[j + 1].t.c, FALSE)),
                last |-> j + 1,
                e |-> Text1TailEnd(toks[j + 1].t.c, FALSE)]>>
        ELSE <<>>

RECURSIVE DateFinderFrom(_, _, _, _)
\* DATE_FINDER.search on the fragment that runs from token j to position
\* be of token b: the leftmost candidate lying inside it, <<>> if none.
\* Candidate c counts if it is one and ends inside the fragment.
DateFinderFrom(toks, j, b, be) ==
    LET IfInside(c, rest) ==
            IF c # <<>> /\ (c[1].last < b \/ (c[1].last = b /\ c[1].e <= be))
            THEN c ELSE rest
    IN  IF j > b \/ j > Len(toks) THEN <<>>
        ELSE IfInside(DateCandAt(toks, j),
                      DateFinderFrom(toks, j + 1, b, be))

\* the position after the last character of token b
TokEnd(toks, b) == IF b >= 1 /\ b <= Len(toks) THEN Len(toks[b].t.c) + 1 ELSE 0

\* _normalize_date(fragment): 'if not m: return None', else
\* _try_parse_date(m.group(0))
normalize_date(toks, j, b, be) ==
    LET ParsedDate(m) == IF m = <<>> THEN None ELSE try_parse_date(m[1].str)
    IN  ParsedDate(DateFinderFrom(toks, j, b, be))

\* form "A": the label token of the leftmost match, 0 if no match
AnchoredDateAt(p, toks) ==
    LeastOr0({j \in 1..(Len(toks) - 1) :
                 /\ toks[j].pos = 1
                 /\ toks[j].t.k = "label" /\ toks[j].t.s \in p.L
                 /\ p.v = "num"
                 /\ toks[j + 1].t.k = "val"
                 /\ DateNumEnd(toks[j + 1].t.c, 1, TRUE) # 0})

\* p.search(text) for a date pattern, then _normalize_date(m.group(0)).
\* Form "A": the match starts with label token j; form "B": it runs from
\* label token j to the end of candidate x, the first date candidate after
\* the token je in which the label ends (<<>> if there is none or the label
\* did not match, je = 0)
DateMatch(p, toks) ==
    LET AnchoredDateIn(j) ==
            IF j = 0 THEN None
            ELSE normalize_date(toks, j, j + 1,
                                DateNumEnd(toks[j + 1].t.c, 1, TRUE))
        LazyDateAt(je) ==
            IF je = 0 THEN <<>>
            ELSE DateFinderFrom(toks, je + 1, Len(toks),
                                TokEnd(toks, Len(toks)))
        LazyDateIn(j, x) ==
            IF x = <<>> THEN None
            ELSE normalize_date(toks, j, x[1].last, x[1].e)
    IN  IF p.f = "A"
        THEN AnchoredDateIn(AnchoredDateAt(p, toks))
        ELSE LazyDateIn(FirstLabel(p, toks),
                        LazyDateAt(FirstLabelEnd(p, toks)))

RECURSIVE FindFirstDateFrom(_, _, _)
\* the loop 'for p in patterns' from pattern i on
FindFirstDateFrom(toks, patterns, i) ==
    IF i > Len(patterns) THEN None
    ELSE OrElse(DateMatch(patterns[i], toks),
                FindFirstDateFrom(toks, patterns, i + 1))

find_first_date(text, patterns) ==
    FindFirstDateFrom(Flatten(text, 1), patterns, 1)

RECURSIVE LabelDateScan(_, _, _, _, _)
\* the two nested loops of extract_label_date_lines, at line i, regex r;
\* WindowDate is _normalize_date(seg) of the window seg, the lines joined
\* by a space
LabelDateScan(lines, lbls, i, r, lines_ahead) ==
    LET WindowDate(segs) ==
            normalize_date(segs, 1, Len(segs), TokEnd(segs, Len(segs)))
    IN  IF i > Len(lines) THEN None
        ELSE IF r > Len(lbls)
             THEN LabelDateScan(lines, lbls, i + 1, 1, lines_ahead)
        ELSE OrElse(IF FirstLabel(lbls[r], LineToks(lines[i])) = 0 THEN None
                    ELSE WindowDate(LineToks(LinesToks(lines, i,
                                                       i + lines_ahead))),
                    LabelDateScan(lines, lbls, i, r + 1, lines_ahead))

extract_label_date_lines(text, lbls, lines_ahead) ==
    LabelDateScan(text, lbls, 1, 1, lines_ahead)


\* ------------------------------------------------------------------------
\* new.py parse_statement_text
\* ------------------------------------------------------------------------
Fields == {"available_credit", "payment_due_date", "new_balance",
           "credit_limit"}

\* Python truthiness of an Optional[str]
Truthy(x) == x # None /\ x # <<>>

\* suspicious_limit that tests the digits, as the guardrail of tp.py does
suspicious_limit_digits(v) ==
    IF ~Truthy(v) THEN FALSE
    ELSE LET raw == Remove(v, {"$", ","})
         IN  (\A i \in 1..Len(raw) : raw[i] \in Digits) /\ Len(raw) <= 2

\* suspicious_limit(v), the nested helper of parse_statement_text: 'if x
\* is None: return False', then 'return x < 100.0' (in cents)
suspicious_limit(v) ==
    LET IsBelow(x, min) == IF x = NoFloat THEN FALSE ELSE x[1] < min
    IN  IF ~Truthy(v) THEN FALSE ELSE IsBelow(money_to_float(v), 10000)

\* Chain with steps 1) and 2) exchanged, the order of tp.py
Chain_globalfirst(s1, s2, lw, boa) ==
    LET v2 == IF ~Truthy(s2) THEN s1 ELSE s2
        v3 == IF ~Truthy(v2) THEN lw ELSE v2
    IN  [v |-> v3,
         stage |-> IF Truthy(s2) THEN "global_direct"
                   ELSE IF Truthy(v2) THEN "issuer_direct"
                   ELSE IF Truthy(v3)
                        THEN (IF boa THEN "issuer_window"
                              ELSE "global_window")
                   ELSE "none"]

\* One field through steps 1) to 3): the value after each step and the
\* step that produced the final one.  s1, s2 are the DirectCapture results
\* on the issuer-specific and on the global patterns, lw the result of the
\* LabelWindow call the if/else of step 3) selects for this issuer, boa
\* says which branch that is.
Chain(s1, s2, lw, boa) ==
    LET v2 == IF ~Truthy(s1) THEN s2 ELSE s1
        v3 == IF ~Truthy(v2) THEN lw ELSE v2
    IN  [v |-> v3,
         stage |-> IF Truthy(s1) THEN "issuer_direct"
                   ELSE IF Truthy(v2) THEN "global_direct"
                   ELSE IF Truthy(v3)
                        THEN (IF boa THEN "issuer_window"
                              ELSE "global_window")
                   ELSE "none"]

\* steps 1) to 3) of parse_statement_text for every field
Extract(text, issuer) ==
    LET isp == ISSUER_SPECIFIC(issuer)
        boa == issuer = "Bank of America"
    IN  [available_credit |->
            Chain(find_first_amount(text, isp.available_credit),
                  find_first_amount(text, PATTERNS.available_credit),
                  IF boa
                  THEN extract_label_amount_lines(text, LBL_BOA_AVAIL, 3,
                                                  FALSE, 0)
                  ELSE extract_label_amount_lines(text, LBL_AVAIL, 3,
                                                  FALSE, 0),
                  boa),
         payment_due_date |->
            Chain(find_first_date(text, isp.payment_due_date),
                  find_first_date(text, PATTERNS.payment_due_date),
                  IF boa
                  THEN extract_label_date_lines(text, LBL_BOA_DUE, 1)
                  ELSE extract_label_date_lines(text, LBL_DUEDATE, 2),
                  boa),
         new_balance |->
            Chain(find_first_amount(text, isp.new_balance),
                  find_first_amount(text, PATTERNS.new_balance),
                  IF boa
                  THEN extract_label_amount_lines(text, LBL_BOA_NEWBAL, 2,
                                                  TRUE, 1000)
                  ELSE extract_label_amount_lines(text, LBL_NEWBAL, 3,
                                                  FALSE, 0),
                  boa),
         credit_limit |->
            Chain(find_first_amount(text, isp.credit_limit),
                  find_first_amount(text, PATTERNS.credit_limit),
                  IF boa
                  THEN extract_label_amount_lines(text, LBL_BOA_LIMIT, 3,
                                                  TRUE, 50000)
                  ELSE extract_label_amount_lines(text, LBL_LIMIT, 3,
                                                  TRUE, 50000),
                  boa)]

\* may_derive_limit without the test that no limit was extracted
may_derive_limit_always(credit_limit, avl, bal) ==
    avl # NoFloat /\ bal # NoFloat /\ bal[1] > 0

\* may_derive_limit without the bal > 0 test
may_derive_limit_anybal(credit_limit, avl, bal) ==
    credit_limit = None /\ avl # NoFloat /\ bal # NoFloat

\* the test of step 4) that lets credit_limit be computed: credit_limit is
\* None and avl, bal are not None and bal > 0
may_derive_limit(credit_limit, avl, bal) ==
    /\ credit_limit = None /\ avl # NoFloat /\ bal # NoFloat
    /\ bal[1] > 0

\* may_derive_avail without the lim >= bal test
may_derive_avail_nocmp(available_credit, lim, bal) ==
    available_credit = None /\ lim # NoFloat /\ bal # NoFloat

\* the test of step 4) that lets available_credit be computed:
\* available_credit is None and lim, bal are not None and lim >= bal
may_derive_avail(available_credit, lim, bal) ==
    /\ available_credit = None /\ lim # NoFloat /\ bal # NoFloat
    /\ lim[1] >= bal[1]

\* steps 5) and 4) the other way round: the guardrail on the extracted
\* limit first, then the derivations
PostProcess_guardfirst(ext) ==
    LET Kept == IF suspicious_limit(ext.credit_limit) THEN None
                ELSE ext.credit_limit
        Derived(lim, bal, avl, dl, da) ==
            [available_credit |-> IF da THEN fmt_money(lim[1] - bal[1])
                                  ELSE ext.available_credit,
             payment_due_date |-> ext.payment_due_date,
             new_balance |-> ext.new_balance,
             credit_limit |-> IF dl THEN fmt_money(avl[1] + bal[1])
                              ELSE Kept,
             limit_derived |-> dl, avail_derived |-> da,
             guard |-> suspicious_limit(ext.credit_limit),
             limit_before_guard |-> ext.credit_limit]
        Steps(lim, bal, avl) ==
            Derived(lim, bal, avl, may_derive_limit(Kept, avl, bal),
                    may_derive_avail(ext.available_credit, lim, bal))
    IN  Steps(money_to_float(Kept), money_to_float(ext.new_balance),
              money_to_float(ext.available_credit))

\* steps 4) and 5): derivations, then the guardrail.  Derive is step 4)
\* for the values lim, bal, avl of the extracted fields, dl and da saying
\* which values it computes; Guardrail is step 5) on the credit limit cl4
\* and the available credit ac4 that step 4) left
PostProcess(ext) ==
    LET Guardrail(dl, da, cl4, ac4) ==
            [available_credit |-> ac4,
             payment_due_date |-> ext.payment_due_date,
             new_balance |-> ext.new_balance,
             credit_limit |-> IF suspicious_limit(cl4) THEN None ELSE cl4,
             limit_derived |-> dl, avail_derived |-> da,
             guard |-> suspicious_limit(cl4),
             limit_before_guard |-> cl4]
        Computed(lim, bal, avl, dl, da) ==
            Guardrail(dl, da,
                      IF dl THEN fmt_money(avl[1] + bal[1])
                      ELSE ext.credit_limit,
                      IF da THEN fmt_money(lim[1] - bal[1])
                      ELSE ext.available_credit)
        Derive(lim, bal, avl) ==
            Computed(lim, bal, avl,
                     may_derive_limit(ext.credit_limit, avl, bal),
                     may_derive_avail(ext.available_credit, lim, bal))
    IN  Derive(money_to_float(ext.credit_limit),
               money_to_float(ext.new_balance),
               money_to_float(ext.available_credit))

\* detect_provider(text) without the default
OrUnknown_none(d) == d

\* detect_provider(text) or "Unknown"
OrUnknown(d) == IF d = NoName THEN "Unknown" ELSE d

\* the body of parse_statement_text once issuer is set and steps 1) to 3)
\* gave ch: an exception that left one of them leaves the function, else
\* the ParsedStatement is returned; post is what steps 4) and 5) made of ch
Completed(issuer, ch) ==
    LET Returned(post) ==
            [raised |-> FALSE,
             rec |-> [file |-> "", card_provider |-> issuer,
                      available_credit |-> post.available_credit,
                      payment_due_date |-> post.payment_due_date,
                      new_balance |-> post.new_balance,
                      credit_limit |-> post.credit_limit],
             ext |-> [f \in Fields |-> ch[f].v],
             stage |-> [f \in Fields |-> ch[f].stage],
             post |-> [limit_derived |-> post.limit_derived,
                       avail_derived |-> post.avail_derived,
                       guard |-> post.guard,
                       limit_before_guard |-> post.limit_before_guard]]
    IN  IF \E f \in Fields : ch[f].v = Exc
        THEN [raised |-> TRUE, rec |-> <<>>, ext |-> <<>>, stage |-> <<>>,
              post |-> <<>>]
        ELSE Returned(PostProcess([f \in Fields |-> ch[f].v]))

\* parse_statement_text(text): what it returns, or that it raised, and how
\* each value came about
parse_statement_text(text) ==
    Completed(OrUnknown(detect_provider(text)),
              Extract(text, OrUnknown(detect_provider(text))))


\* ------------------------------------------------------------------------
\* tp.py: value regular expressions
\* ------------------------------------------------------------------------
\* the last word of a marker, label or word token
LastWord(t) ==
    CASE
         t.s = "New Balance Total" -> <<"T", "o", "t", "a", "l">>
      [] t.s = "New Balance" -> <<"B", "a", "l", "a", "n", "c", "e">>
      [] t.s = "Statement Balance" -> <<"B", "a", "l", "a", "n", "c", "e">>
      [] t.s = "Closing balance" -> <<"b", "a", "l", "a", "n", "c", "e">>
      [] t.s = "Credit Limit" -> <<"L", "i", "m", "i", "t">>
      [] t.s = "Approved Limit" -> <<"L", "i", "m", "i", "t">>
      [] t.s = "Available Credit" -> <<"C", "r", "e", "d", "i", "t">>
      [] t.s = "Available Funds" -> <<"F", "u", "n", "d", "s">>
      [] t.s = "Payment Due Date" -> <<"D", "a", "t", "e">>
      [] t.s = "Statement ends" -> <<"e", "n", "d", "s">>
      [] t.s = "Bank of America" -> <<"A", "m", "e", "r", "i", "c", "a">>
      [] t.s = "BofA" -> <<"B", "o", "f", "A">>
      [] t.s = "B A N K O F A M E R I C A" -> <<"A">>
      [] t.s = "Chase" -> <<"C", "h", "a", "s", "e">>
      [] t.s = "JPMorgan Chase" -> <<"C", "h", "a", "s", "e">>
      [] t.s = "American Express" -> <<"E", "x", "p", "r", "e", "s", "s">>
      [] t.s = "AMEX" -> <<"A", "M", "E", "X">>
      [] t.s = "Citi" -> <<"C", "i", "t", "i">>
      [] t.s = "Citibank" -> <<"C", "i", "t", "i", "b", "a", "n", "k">>
      [] t.s = "Capital One" -> <<"O", "n", "e">>
      [] t.s = "Commonwealth Bank" -> <<"B", "a", "n", "k">>
      [] t.s = "CommBank" -> <<"C", "o", "m", "m", "B", "a", "n", "k">>
      [] t.s = "Page" -> <<"P", "a", "g", "e">>

\* [0-9]{1,3}(?:,[0-9]{3})*(?:\.[0-9]{2}) at p, the first alternative of
\* tp.py AMOUNT_CORE: position after, else 0
CoreAlt1End(s, p) == Dec2End(s, GroupedEnd(s, p))

\* [0-9]+(?:\.[0-9]{2})? at p, the second alternative: the ends the regex
\* engine tries, in its order: those of (?:\.[0-9]{2})? at d, where the run
\* [0-9]+ ended, longest first
CoreAlt2Ends(s, p) ==
    LET CoreEndsAt(d) ==
            (IF At(s, d) = "." /\ IsDigitAt(s, d + 1) /\ IsDigitAt(s, d + 2)
             THEN <<d + 3>> ELSE <<>>) \o <<d>>
    IN  IF ~IsDigitAt(s, p) THEN <<>> ELSE CoreEndsAt(SkipWhile(s, p, Digits))

\* the captured span that starts at a: up to e1 if the first alternative
\* matched, else up to e2 if the second did
Span(a, e1, e2) ==
    IF e1 # 0 THEN <<a, e1>> ELSE IF e2 # 0 THEN <<a, e2>> ELSE <<>>

\* [:\-\._]*[ \t]* of SEP from the start of a chunk (sep), or nothing
SepSkip(s, sep) ==
    IF sep THEN SkipWhile(s, SkipWhile(s, 1, {":", "-", ".", "_"}), {" "})
    ELSE 1

\* the group (\$?\s*{AMOUNT_CORE}) at the start of a chunk, followed by \b
\* or not: <<start, end>> of the captured text, <<>> if no match.  The
\* alternation of AMOUNT_CORE splits the group: \$?\s* belongs to the first
\* alternative only.
TpGroupA(s, wantB) ==
    Span(1,
         BoundedEnd(s, CoreAlt1End(s, SkipWhile(s, Opt(s, 1, "$"), {" "})),
                    wantB),
         PickEnd(s, CoreAlt2Ends(s, 1), wantB))

\* where ({AMOUNT_CORE}) starts after {SEP}\$?\s*
SepEnd(s, sameLine) ==
    IF sameLine THEN SkipWhile(s, Opt(s, SepSkip(s, TRUE), "$"), {" "})
    ELSE SkipWhile(s, 1, {" "})

\* ({AMOUNT_CORE})\b at q
CoreSpan(s, q) ==
    Span(q, BoundedEnd(s, CoreAlt1End(s, q), TRUE),
         PickEnd(s, CoreAlt2Ends(s, q), TRUE))

\* [0-9][0-9,]*\.\d{2} (strict) or [0-9][0-9,]*(?:\.\d{2})? at q, the run
\* [0-9,]* ending at d: position after, else 0
CurrEndAt(s, q, d, strict) ==
    IF ~IsDigitAt(s, q) THEN 0
    ELSE IF At(s, d) = "." /\ IsDigitAt(s, d + 1) /\ IsDigitAt(s, d + 2)
         THEN d + 3
    ELSE IF strict THEN 0 ELSE d

\* CURR_STRICT or CURR_RELAXED matched at p: position after, else 0
CurrEnd(s, p, strict) ==
    CurrEndAt(s, SkipWhile(s, Opt(s, p, "$"), {" "}),
              SkipWhile(s, SkipWhile(s, Opt(s, p, "$"), {" "}),
                        Digits \cup {","}),
              strict)

RECURSIVE CurrFrom(_, _, _)
\* CURR_STRICT.finditer (strict) or CURR_RELAXED.finditer over a chunk from
\* position p on: the matched texts, stripped; e is CurrEnd(s, p, strict)
CurrFrom(s, p, strict) ==
    LET Matches(e) ==
            IF e = 0 THEN CurrFrom(s, p + 1, strict)
            ELSE <<StripChars(Slice(s, p, e), {" "})>>
                 \o CurrFrom(s, e, strict)
    IN  IF p > Len(s) THEN <<>> ELSE Matches(CurrEnd(s, p, strict))

RECURSIVE CurrOf(_, _)
\* the same over a run of tokens of one line
CurrOf(toks, strict) ==
    IF toks = <<>> THEN <<>>
    ELSE (IF Head(toks).k = "val" THEN CurrFrom(Head(toks).c, 1, strict)
          ELSE <<>>) \o CurrOf(Tail(toks), strict)

\* Python's 'a or b' on two lists
OrList(a, b) == IF a # <<>> THEN a ELSE b

\* list(CURR_STRICT.finditer(x)) or list(CURR_RELAXED.finditer(x))
CurrCands(toks) == OrList(CurrOf(toks, TRUE), CurrOf(toks, FALSE))

\* ------------------------------------------------------------------------
\* tp.py: money
\* ------------------------------------------------------------------------
\* sanitize_amount_str(value) for a value that is not None
sanitize_amount_str(value) ==
    <<"$">>
    \o AddCents(LStripChars(Remove(StripChars(value, {" "}), {" "}), {"$"}))

\* parse_money_to_float(v): <<cents>>, NoFloat where float() raises
parse_money_to_float(v) == Caught(ParseFloat(Remove(v, {"$", ","})))

\* the choice among the candidates of one line: the first whose value is
\* neither 0.0 nor None (x not in (0.0, None)), else the first
PickCand(vals) ==
    LET NonZero(x) == x # NoFloat /\ x[1] # 0
    IN  sanitize_amount_str(
            OrList(SelectSeq(vals,
                       LAMBDA raw : NonZero(parse_money_to_float(raw))),
                   vals)[1])


\* ------------------------------------------------------------------------
\* tp.py: pattern tables.  As in the tables of new.py each regular
\* expression is the form it has and the labels its label part matches:
\*   f : "A" for  ^\s*<label>\s+(<value>)\b
\*       "S" for  \b<label>{SEP}<value>\b
\*       "X" for  \b<label>\b.{0,n}?(<value>), re.S.  In the amount tables
\*           the pattern is an f-string, in which {0,160} is a replacement
\*           field: the compiled expression is <label>\b.(0, 160)?(<value>),
\*           one character and then the value.
\*   v : "amt", "num" (a numeric date), "txt" (a date in words)
\* ------------------------------------------------------------------------
TpPat(f, L, v) == [f |-> f, L |-> L, P |-> {}, v |-> v]

tp_PATTERNS ==
    [available_credit |->
        << TpPat("A", {"Available Credit"}, "amt"),
           TpPat("S", {"Available Credit"}, "amt"),
           TpPat("S", {}, "amt"),
           TpPat("S", {}, "amt"),
           TpPat("X", {"Available Credit"}, "amt") >>,
     payment_due_date |->
        << TpPat("A", {"Payment Due Date"}, "num"),
           TpPat("S", {"Payment Due Date"}, "num"),
           TpPat("S", {"Payment Due Date"}, "num"),
           TpPat("S", {"Payment Due Date"}, "txt"),
           TpPat("S", {"Payment Due Date"}, "txt"),
           TpPat("X", {"Payment Due Date"}, "num") >>,
     new_balance |->
        << TpPat("A", {"New Balance", "New Balance Total"}, "amt"),
           TpPat("S", {"New Balance Total"}, "amt"),
           TpPat("S", {"New Balance"}, "amt"),
           TpPat("S", {}, "amt"),
           TpPat("X", {"New Balance"}, "amt") >>,
     credit_limit |->
        << TpPat("A", {"Credit Limit"}, "amt"),
           TpPat("S", {"Credit Limit"}, "amt"),
           [TpPat("S", {}, "amt") EXCEPT
               !.P = {<<"New Balance Total", "Credit Limit">>}],
           TpPat("S", {}, "amt"),
           TpPat("S", {}, "amt"),
           TpPat("S", {}, "amt"),
           TpPat("X", {"Credit Limit"}, "amt") >>]

\* ISSUER_SPECIFIC[issuer] of tp.py; a field not in it has no patterns
tp_ISSUER_SPECIFIC(issuer) ==
    CASE issuer = "Bank of America" ->
        [available_credit |->
            << TpPat("A", {"Available Credit"}, "amt"),
               TpPat("X", {"Available Credit"}, "amt") >>,
         payment_due_date |-> << TpPat("A", {"Payment Due Date"}, "num") >>,
         new_balance |-> << TpPat("A", {"New Balance Total"}, "amt") >>,
         credit_limit |-> << TpPat("A", {"Credit Limit"}, "amt") >>]
      [] issuer = "Chase" ->
        [available_credit |->
            << TpPat("A", {"Available Credit"}, "amt"),
               TpPat("S", {}, "amt") >>,
         payment_due_date |-> <<>>,
         new_balance |-> << TpPat("A", {"New Balance"}, "amt") >>,
         credit_limit |-> << TpPat("A", {"Credit Limit"}, "amt") >>]
      [] issuer = "American Express" ->
        [available_credit |-> << TpPat("A", {"Available Credit"}, "amt") >>,
         payment_due_date |-> <<>>,
         new_balance |->
            << TpPat("A", {"New Balance", "New Balance Total"}, "amt") >>,
         credit_limit |-> <<>>]
      [] issuer \in {"Citi", "Capital One"} ->
        [available_credit |-> << TpPat("A", {"Available Credit"}, "amt") >>,
         payment_due_date |-> <<>>,
         new_balance |-> <<>>,
         credit_limit |-> << TpPat("A", {"Credit Limit"}, "amt") >>]
      [] OTHER -> NoPatterns

\* a label regex of the line-based fallback: anch for a leading ^\s*
TpLbl(anch, L) == [anch |-> anch, L |-> L, P |-> {}]

LBL_AVAIL_CREDIT ==
    << TpLbl(TRUE, {"Available Credit"}),
       TpLbl(FALSE, {"Available Credit"}),
       [TpLbl(FALSE, {}) EXCEPT !.P = CreditAvailablePairs],
       TpLbl(FALSE, {}) >>

LBL_DUE_DATE ==
    << TpLbl(TRUE, {"Payment Due Date"}),
       TpLbl(FALSE, {"Payment Due Date"}),
       TpLbl(FALSE, {"Payment Due Date"}) >>

LBL_NEW_BAL ==
    << TpLbl(TRUE, {"New Balance", "New Balance Total"}),
       TpLbl(FALSE, {"New Balance Total"}),
       TpLbl(FALSE, {"New Balance", "New Balance Total"}) >>

LBL_CREDIT_LIMIT ==
    << TpLbl(TRUE, {"Credit Limit"}),
       TpLbl(FALSE, {"Credit Limit"}),
       [TpLbl(FALSE, {}) EXCEPT
           !.P = {<<"New Balance Total", "Credit Limit">>}],
       TpLbl(FALSE, {}),
       TpLbl(FALSE, {}),
       TpLbl(FALSE, {}) >>


\* ------------------------------------------------------------------------
\* tp.py: DirectCapture (find_first_match)
\* ------------------------------------------------------------------------
RECURSIVE CharsBetween(_, _, _)
\* the characters from the end of token j to the start of token k > j
CharsBetween(toks, j, k) ==
    LET TokLen(t) ==
            IF t.k = "val" THEN Len(t.c)
            ELSE CASE
                 t.s = "B A N K O F A M E R I C A" -> 25
              [] t.s \in {"New Balance Total", "Statement Balance",
                          "Commonwealth Bank"} -> 17
              [] t.s \in {"Available Credit", "Payment Due Date",
                          "American Express"} -> 16
              [] t.s \in {"Closing balance", "Available Funds",
                          "Bank of America"} -> 15
              [] t.s \in {"Approved Limit", "Statement ends",
                          "JPMorgan Chase"} -> 14
              [] t.s = "Credit Limit" -> 12
              [] t.s \in {"New Balance", "Capital One"} -> 11
              [] t.s \in {"Citibank", "CommBank"} -> 8
              [] t.s = "Chase" -> 5
              [] t.s \in {"BofA", "AMEX", "Citi", "Page"} -> 4
    IN  IF k = j + 1 THEN 1
        ELSE CharsBetween(toks, j, k - 1) + TokLen(toks[k - 1].t) + 1

\* the positions of chunk c at which a numeric date starts
TpDateStarts(c) == {q \in 1..Len(c) : DateNumEnd(c, q, FALSE) # 0}

\* the first numeric date that starts at most 60 characters after the end
\* of token j: its text, None if there is none; TpDateIn is the first
\* numeric date of chunk k, None for k = 0
TpDateWithin(toks, j) ==
    LET TpDateAt(c, q) == Slice(c, q, DateNumEnd(c, q, FALSE))
        TpDateIn(k) ==
            IF k = 0 THEN None
            ELSE TpDateAt(toks[k].t.c, LeastOr0(TpDateStarts(toks[k].t.c)))
    IN  TpDateIn(LeastOr0({k \in (j + 1)..Len(toks) :
                             /\ toks[k].t.k = "val"
                             /\ \E q \in TpDateStarts(toks[k].t.c) :
                                   CharsBetween(toks, j, k) + q - 1 <= 60}))

\* the token index at which the label part of p, matched from token j,
\* ends: 0 if it does not match there
TpLabelEnd(p, toks, j) ==
    IF /\ toks[j].t.k = "label" /\ toks[j].t.s \in p.L
       /\ (p.f = "A" => toks[j].pos = 1)
    THEN j
    ELSE IF /\ j < Len(toks)
            /\ toks[j].t.k = "label" /\ toks[j + 1].t.k = "label"
            /\ <<toks[j].t.s, toks[j + 1].t.s>> \in p.P
         THEN j + 1
    ELSE 0

\* the text the group of p captures when its label part ends with token j:
\* None if what follows is not the value the pattern wants.  For form "S"
\* the value is {SEP}\$?\s*({AMOUNT_CORE})\b from the start of a chunk that
\* follows the label on its line (same) or opens the next line: SEP is
\* [ \t]*[:\-\._]*[ \t]* and cannot cross the line break, \s* can
TpValueAfter(p, toks, j) ==
    IF j >= Len(toks) THEN None
    ELSE LET n    == toks[j + 1]
             c    == n.t.c
             same == n.line = toks[j].line
             SliceOrNone(a, x) == IF x = 0 THEN None ELSE Slice(c, a, x)
             SpanOrNone(g) == IF g = <<>> THEN None ELSE Slice(c, g[1], g[2])
         IN  IF p.v = "txt"
             THEN IF /\ same /\ n.t.k # "val" /\ n.t.s \in SingleWords
                     /\ j + 2 <= Len(toks) /\ toks[j + 2].t.k = "val"
                     /\ Text1TailEnd(toks[j + 2].t.c, TRUE) # 0
                  THEN LastWord(n.t)
                       \o <<IF toks[j + 2].line = n.line THEN " " ELSE "\n">>
                       \o Slice(toks[j + 2].t.c, 1,
                                Text1TailEnd(toks[j + 2].t.c, TRUE))
                  ELSE None
             ELSE IF p.f = "X" /\ p.v = "num" THEN TpDateWithin(toks, j)
             ELSE IF n.t.k # "val" THEN None
             ELSE IF p.v = "num"
             THEN SliceOrNone(SepSkip(c, p.f = "S"),
                              IF p.f = "S" => same
                              THEN DateNumEnd(c, SepSkip(c, p.f = "S"), TRUE)
                              ELSE 0)
             ELSE SpanOrNone(IF p.f = "S" THEN CoreSpan(c, SepEnd(c, same))
                             ELSE TpGroupA(c, p.f = "A"))

\* p.search(text) and _first_group of the match, g.strip(), for the match
\* of p that starts in token j: None if p does not match
TpMatch(p, toks) ==
    LET TpFirstGroup(j) ==
            IF j = 0 THEN None
            ELSE StripChars(TpValueAfter(p, toks, TpLabelEnd(p, toks, j)),
                            {" ", "\n"})
    IN  TpFirstGroup(
            LeastOr0({j \in 1..Len(toks) :
                         /\ TpLabelEnd(p, toks, j) # 0
                         /\ TpValueAfter(p, toks, TpLabelEnd(p, toks, j))
                            # None}))

RECURSIVE FindFirstMatchFrom(_, _, _)
\* the loop 'for p in patterns' from pattern i on: 'if out: return out',
\* else what the rest of the loop returns
FindFirstMatchFrom(toks, patterns, i) ==
    LET IfTruthy(out_, rest) == IF Truthy(out_) THEN out_ ELSE rest
    IN  IF i > Len(patterns) THEN None
        ELSE IfTruthy(TpMatch(patterns[i], toks),
                      FindFirstMatchFrom(toks, patterns, i + 1))

\* find_first_match(text, patterns)
find_first_match(text, patterns) ==
    FindFirstMatchFrom(Flatten(text, 1), patterns, 1)


\* ------------------------------------------------------------------------
\* tp.py: line-based fallbacks
\* ------------------------------------------------------------------------
\* the token of the line in which label regex lr, matched from token j,
\* ends: 0 if it does not match there
TpLineLabelEnd(lr, toks, j) ==
    IF /\ toks[j].k = "label" /\ toks[j].s \in lr.L
       /\ (lr.anch => j = 1)
    THEN j
    ELSE IF /\ j < Len(toks)
            /\ toks[j].k = "label" /\ toks[j + 1].k = "label"
            /\ <<toks[j].s, toks[j + 1].s>> \in lr.P
         THEN j + 1
    ELSE 0

\* lr.search(line): the index of the token in which the leftmost match
\* ends, 0 if the label regex does not match the line
TpFirstLabel(lr, toks) ==
    LET EndOr0(j) == IF j = 0 THEN 0 ELSE TpLineLabelEnd(lr, toks, j)
    IN  EndOr0(LeastOr0({j \in 1..Len(toks) :
                            TpLineLabelEnd(lr, toks, j) # 0}))

\* 'if cands: ... return sanitize_amount_str(...)', else what follows
PickOr(cands, rest) == IF cands # <<>> THEN PickCand(cands) ELSE rest

RECURSIVE LookAhead(_, _, _, _)
\* the loop over the lines after line i of extract_by_label_line, at j
LookAhead(lines, i, j, lines_ahead) ==
    IF j > lines_ahead \/ i + j > Len(lines) THEN None
    ELSE PickOr(CurrCands(lines[i + j]),
                LookAhead(lines, i, j + 1, lines_ahead))

RECURSIVE LabelLineScan(_, _, _, _, _)
\* the two nested loops of extract_by_label_line, at line i and regex r;
\* LabelLineAt is the body of the inner loop, the label match ending in
\* token je of the line (0: 'if not m: continue')
LabelLineScan(lines, lbls, i, r, lines_ahead) ==
    LET LabelLineAt(je) ==
            IF je = 0 THEN None
            ELSE PickOr(CurrCands(SubSeq(lines[i], je + 1, Len(lines[i]))),
                        LookAhead(lines, i, 1, lines_ahead))
    IN  IF i > Len(lines) THEN None
        ELSE IF r > Len(lbls)
             THEN LabelLineScan(lines, lbls, i + 1, 1, lines_ahead)
        ELSE OrElse(LabelLineAt(TpFirstLabel(lbls[r], lines[i])),
                    LabelLineScan(lines, lbls, i, r + 1, lines_ahead))

extract_by_label_line(text, label_regexes, lines_ahead) ==
    LabelLineScan(text, label_regexes, 1, 1, lines_ahead)

\* the places <<token, position>> of a line at which DATE_NUMERIC matches
DateNumericHits(line) ==
    {h \in UNION {{<<j, q>> : q \in 1..Len(line[j].c)} : j \in 1..Len(line)} :
        /\ line[h[1]].k = "val"
        /\ Boundary(line[h[1]].c, h[2])
        /\ DateNumEnd(line[h[1]].c, h[2], TRUE) # 0}

\* DATE_NUMERIC.search(line): m.group(1) of the leftmost match, None if
\* there is none
DateNumericIn(line) ==
    LET FirstHit(hits) ==
            CHOOSE h \in hits : \A g \in hits :
                h[1] < g[1] \/ (h[1] = g[1] /\ h[2] <= g[2])
        DateAt(c, q) == Slice(c, q, DateNumEnd(c, q, TRUE))
        DateNumericAt(hits) ==
            IF hits = {} THEN None
            ELSE DateAt(line[FirstHit(hits)[1]].c, FirstHit(hits)[2])
    IN  DateNumericAt(DateNumericHits(line))

\* DATE_MIXED.search(line): a word of 3 to 9 letters, then the tail; the
\* text it captures from the word in token j on
DateMixedIn(line) ==
    LET DateMixedAt(j) ==
            IF j = 0 THEN None
            ELSE LastWord(line[j]) \o <<" ">>
                 \o Slice(line[j + 1].c, 1,
                          Text1TailEnd(line[j + 1].c, TRUE))
    IN  DateMixedAt(
            LeastOr0({j \in 1..(Len(line) - 1) :
                         /\ line[j].k # "val"
                         /\ Len(LastWord(line[j])) \in 3..9
                         /\ line[j + 1].k = "val"
                         /\ Text1TailEnd(line[j + 1].c, TRUE) # 0}))

\* DATE_NUMERIC.search(line) or DATE_MIXED.search(line)
DateIn(line) == OrElse(DateNumericIn(line), DateMixedIn(line))

RECURSIVE DueDateScan(_, _)
\* the date loop of parse_statement_text (tp.py), at line i: 'if any(
\* p.search(line) for p in LBL_DUE_DATE)', the date of the line, and 'if
\* not m and i + 1 < len(lines): m = ... (lines[i + 1])'
DueDateScan(lines, i) ==
    LET OrNextLine(m) ==
            IF m = None /\ i + 1 <= Len(lines) THEN DateIn(lines[i + 1])
            ELSE m
    IN  IF i > Len(lines) THEN None
        ELSE OrElse(IF \E r \in 1..Len(LBL_DUE_DATE) :
                          TpFirstLabel(LBL_DUE_DATE[r], lines[i]) # 0
                    THEN OrNextLine(DateIn(lines[i])) ELSE None,
                    DueDateScan(lines, i + 1))


\* ------------------------------------------------------------------------
\* tp.py parse_statement_text
\* ------------------------------------------------------------------------
\* _suspicious_amount(val), the nested helper: raw.isdigit() and
\* len(raw) <= 2 on the value without "$" and ","
suspicious_amount(val) ==
    IF ~Truthy(val) THEN FALSE
    ELSE LET raw == Remove(val, {"$", ","})
         IN  /\ raw # <<>> /\ \A i \in 1..Len(raw) : raw[i] \in Digits
             /\ Len(raw) <= 2

\* One field through the three steps of tp.py: g is the result on the
\* global patterns, s on the issuer-specific ones, lw of the line-based
\* fallback
TpChain(g, s, lw) ==
    LET v2 == IF ~Truthy(g) THEN s ELSE g
        v3 == IF ~Truthy(v2) THEN lw ELSE v2
    IN  [v |-> v3,
         stage |-> IF Truthy(g) THEN "global_direct"
                   ELSE IF Truthy(v2) THEN "issuer_direct"
                   ELSE IF Truthy(v3) THEN "global_window"
                   ELSE "none"]

\* "primary regex paths", "issuer-specific fallbacks", "line-based
\* fallbacks" for every field
TpExtract(text, issuer) ==
    LET isp == tp_ISSUER_SPECIFIC(issuer)
    IN  [available_credit |->
            TpChain(find_first_match(text, tp_PATTERNS.available_credit),
                    find_first_match(text, isp.available_credit),
                    extract_by_label_line(text, LBL_AVAIL_CREDIT, 3)),
         payment_due_date |->
            TpChain(find_first_match(text, tp_PATTERNS.payment_due_date),
                    find_first_match(text, isp.payment_due_date),
                    DueDateScan(text, 1)),
         new_balance |->
            TpChain(find_first_match(text, tp_PATTERNS.new_balance),
                    find_first_match(text, isp.new_balance),
                    extract_by_label_line(text, LBL_NEW_BAL, 3)),
         credit_limit |->
            TpChain(find_first_match(text, tp_PATTERNS.credit_limit),
                    find_first_match(text, isp.credit_limit),
                    extract_by_label_line(text, LBL_CREDIT_LIMIT, 3))]

\* sanitize_amount_str(v) if v else None
Cleaned(v) == IF Truthy(v) THEN sanitize_amount_str(v) ELSE None

\* the body of parse_statement_text once issuer is set: the guardrail and
\* the ParsedStatement that is returned; ch is what the three steps gave,
\* cl the cleaned credit limit
TpCompleted(issuer, ch) ==
    LET TpReturned(cl) ==
            [raised |-> FALSE,
             rec |-> [file |-> "", card_provider |-> issuer,
                      available_credit |-> Cleaned(ch.available_credit.v),
                      payment_due_date |-> ch.payment_due_date.v,
                      new_balance |-> Cleaned(ch.new_balance.v),
                      credit_limit |->
                          IF suspicious_amount(cl) THEN None ELSE cl],
             ext |-> [f \in Fields |-> ch[f].v],
             stage |-> [f \in Fields |-> ch[f].stage],
             post |-> [guard |-> suspicious_amount(cl)]]
    IN  TpReturned(Cleaned(ch.credit_limit.v))

\* parse_statement_text(text) of tp.py: the record, and how each value
\* came about
tp_parse_statement_text(text) ==
    TpCompleted(OrUnknown(detect_issuer(text)),
                TpExtract(text, OrUnknown(detect_issuer(text))))


\* ------------------------------------------------------------------------
\* The texts the engines are run on
\* ------------------------------------------------------------------------
MaxLines == 3

\* the families of lines the texts are drawn from
Families ==
    LET
        \* a Bank of America summary block
        LinesBoA ==
            {<<Issuer("Bank of America")>>,
             <<Label("New Balance Total"), Val(<<"$", "1", ",", "2", "3", "4", ".", "5", "6">>)>>,
             <<Label("Credit Limit"), Val(<<"$", "5", ",", "0", "0", "0", ".", "0", "0">>)>>,
             <<Label("Payment Due Date"), Val(<<"0", "3", "/", "1", "5", "/", "2", "4">>)>>,
             <<Label("Statement Balance"), Val(<<"$", "0", ".", "0", "0">>)>>,
             <<Label("Credit Limit"), Val(<<"3", "5">>)>>}
        \* balances, limits and available credit of an unnamed issuer
        LinesSums ==
            {<<Label("Available Credit"), Val(<<"$", "5", "0", ".", "0", "0">>)>>,
             <<Label("Available Credit"), Val(<<"$", "3", ",", "7", "6", "5", ".", "4", "4">>)>>,
             <<Label("New Balance"), Val(<<"$", "3", "5", ".", "0", "0">>)>>,
             <<Label("New Balance"), Val(<<"$", "0", ".", "0", "0">>)>>,
             <<Label("New Balance"), Val(<<"$", "1", ",", "2", "3", "4", ".", "5", "6">>)>>,
             <<Label("Credit Limit"), Val(<<"$", "5", ",", "0", "0", "0", ".", "0", "0">>)>>,
             <<Label("Credit Limit"), Val(<<"$", "6", "0", ".", "0", "0">>)>>}
        \* a Commonwealth Bank statement
        LinesCommonwealth ==
            {<<Issuer("Commonwealth Bank")>>,
             <<Label("Closing balance"), Val(<<"$", "2", ",", "0", "0", "0", ".", "0", "0">>)>>,
             <<Label("Available Funds"), Val(<<"$", "5", "0", "0", ".", "0", "0">>)>>,
             <<Label("Statement ends"), Val(<<"0", "3", "/", "1", "5", "/", "2", "4">>)>>,
             <<Label("Approved Limit"), Val(<<"$", "5", ",", "0", "0", "0", ".", "0", "0">>)>>,
             <<Label("Closing balance")>>}
        \* a Chase statement with two balance rows
        LinesChase ==
            {<<Issuer("Chase")>>,
             <<Label("New Balance Total"), Val(<<"$", "5", ".", "0", "0">>)>>,
             <<Label("New Balance"), Val(<<"$", "7", ".", "0", "0">>)>>,
             <<Label("Credit Limit"), Val(<<"5", ",", "0", "0", "0">>)>>,
             <<Label("Available Credit"), Val(<<"$", "0", ".", "0", "0">>)>>,
             <<Issuer("Bank of America")>>}
        \* OCR damage: values no parser accepts
        LinesMalformed ==
            {<<Label("New Balance"), Val(<<"-", "(", "1", "2", ")">>)>>,
             <<Label("Payment Due Date"), Val(<<"1", "3", "/", "4", "5", "/", "2", "4">>)>>,
             <<Label("New Balance"), Val(<<"(", "1", "2", "3", ".", "4", "5", ")">>)>>,
             <<Label("Credit Limit"), Val(<<"$", "(", "1", "2", ".", "0", "0", ")">>)>>,
             <<Label("Payment Due Date"), Val(<<"3", "/", "5", "/", "2", "0", "2", "4">>)>>,
             <<Label("Available Credit"), Val(<<"1", "2", "3", "4">>)>>}
        \* lines without issuer marker or field label
        LinesNoise ==
            {<<Val(<<"$", "1", ",", "2", "3", "4", ".", "5", "6">>)>>,
             <<Val(<<"0", "3", "/", "1", "5", "/", "2", "4">>)>>,
             <<Word("Page"), Val(<<"3", "5">>)>>,
             <<Val(<<"$", "0", ".", "0", "0">>)>>,
             <<Word("Page")>>}
        \* labels whose value sits on a following line
        LinesWindow ==
            {<<Label("Credit Limit")>>,
             <<Label("New Balance Total")>>,
             <<Val(<<"$", "5", ",", "0", "0", "0", ".", "0", "0">>)>>,
             <<Val(<<"3", "5">>)>>,
             <<Val(<<"$", "0", ".", "0", "0">>)>>,
             <<Issuer("Bank of America")>>}
        \* issuer markers, first half
        LinesMarkersA ==
            {<<Issuer("Bank of America")>>,
             <<Issuer("BofA")>>,
             <<Issuer("B A N K O F A M E R I C A")>>,
             <<Issuer("Chase")>>,
             <<Issuer("JPMorgan Chase")>>,
             <<Issuer("Commonwealth Bank")>>}
        \* issuer markers, second half
        LinesMarkersB ==
            {<<Issuer("American Express")>>,
             <<Issuer("AMEX")>>,
             <<Issuer("Citi")>>,
             <<Issuer("Citibank")>>,
             <<Issuer("Capital One")>>,
             <<Issuer("CommBank")>>,
             <<Issuer("Chase"), Issuer("Bank of America")>>}
        \* amounts printed as bare integers of one or two digits
        LinesShort ==
            {<<Label("Credit Limit"), Val(<<"3", "5">>)>>,
             <<Label("New Balance"), Val(<<"3", "5">>)>>,
             <<Label("Available Credit"), Val(<<"7">>)>>}
        \* a zero available credit followed by other amounts
        LinesScore ==
            {<<Label("Available Credit"), Val(<<"$", "0", ".", "0", "0">>)>>,
             <<Val(<<"$", "5", "0", ".", "0", "0">>)>>,
             <<Val(<<"1", "2", "3", "4">>)>>}
        \* a Bank of America block whose labels are followed by a zero
        LinesBoAZero ==
            {<<Issuer("Bank of America"), Label("New Balance Total"),
               Val(<<"$", "0", ".", "0", "0">>)>>,
             <<Val(<<"$", "7", ".", "0", "0">>)>>,
             <<Val(<<"$", "1", ",", "2", "3", "4", ".", "5", "6">>)>>,
             <<Label("Credit Limit"), Val(<<"$", "0", ".", "0", "0">>)>>,
             <<Val(<<"$", "4", "5", "0", ".", "0", "0">>)>>,
             <<Val(<<"$", "5", ",", "0", "0", "0", ".", "0", "0">>)>>}
        \* due dates: one no calendar has, one before its label
        LinesDates ==
            {<<Label("Payment Due Date"),
               Val(<<"1", "3", "/", "4", "5", "/", "2", "4">>)>>,
             <<Val(<<"0", "3", "/", "1", "5", "/", "2", "4">>)>>,
             <<Val(<<"0", "3", "/", "1", "5", "/", "2", "4">>),
               Label("Payment Due Date")>>,
             <<Label("Payment Due Date"),
               Val(<<"1", "3", "/", "4", "5", "/", "2", "4">>),
               Val(<<"0", "3", "/", "1", "5", "/", "2", "4">>)>>}
    IN  {LinesBoA, LinesSums, LinesCommonwealth, LinesChase, LinesMalformed,
         LinesNoise, LinesWindow, LinesMarkersA, LinesMarkersB, LinesShort,
         LinesScore, LinesBoAZero, LinesDates}

\* the lines of a longer page: a limit printed as zero, filler, the limit
LongLines ==
    {<<Label("Credit Limit"), Val(<<"$", "0", ".", "0", "0">>)>>,
     <<Word("Page")>>,
     <<Label("Credit Limit"), Val(<<"$", "5", ",", "0", "0", "0", ".", "0", "0">>)>>}

\* all texts of at most MaxLines lines drawn from one family, and the
\* longer pages of up to two lines more
Texts ==
    UNION {UNION {[1..n -> F] : n \in 0..MaxLines} : F \in Families}
    \cup UNION {[1..n -> LongLines] : n \in (MaxLines + 1)..(MaxLines + 2)}

\* ------------------------------------------------------------------------
\* State
\* ------------------------------------------------------------------------
\* One behaviour is one document: the text acquired for it, then one entry
\* point run on it (the engines keep no state between documents).
VARIABLES
    text,     \* the text acquired for the document
    engine,   \* the entry point that ran on it, "none" before
    out       \* what that returned: [kind, rec, ...]

vars == <<text, engine, out>>

Init ==
    /\ text \in Texts
    /\ engine = "none"
    /\ out = [kind |-> "none"]

\* what a call left behind: that it raised, or the record it returned
OutcomeOf(r) ==
    IF r.raised THEN [kind |-> "raised"]
    ELSE [kind |-> "record", rec |-> r.rec, ext |-> r.ext,
          stage |-> r.stage, post |-> r.post]

\* the outcome of a call of new.py parse_statement_text
OutcomeNew(t) == OutcomeOf(parse_statement_text(t))

\* new.py parse_statement_text called on the text
ParseNew ==
    /\ engine = "none"
    /\ engine' = "new"
    /\ out' = OutcomeNew(text)
    /\ UNCHANGED text

\* tp.py parse_statement_text called on the text
ParseTp ==
    /\ engine = "none"
    /\ engine' = "tp"
    /\ out' = OutcomeOf(tp_parse_statement_text(text))
    /\ UNCHANGED text

\* the path main is given for the document
Path == "statement.pdf"

\* main of new.py on one path: parse_pdf(p) returns the record of the
\* acquired text with file set ('ps = parse_pdf(p); ps.file = p'), or the
\* acquisition (rendering, image decoding) or the parse raises and main
\* appends the record of its except branch
MainNew ==
    LET MainOutcome(acquired, o) ==
            IF acquired /\ o.kind = "record"
            THEN [o EXCEPT !.rec.file = Path]
            ELSE [kind |-> "failed",
                  rec |-> [file |-> Path, card_provider |-> NoName,
                           available_credit |-> None,
                           payment_due_date |-> None,
                           new_balance |-> None,
                           credit_limit |-> None]]
    IN  /\ engine = "none"
        /\ engine' = "main"
        /\ \E acquired \in BOOLEAN :
              out' = MainOutcome(acquired, OutcomeNew(text))
        /\ UNCHANGED text

Next == ParseNew \/ ParseTp \/ MainNew

Spec == Init /\ [][Next]_vars

\* ------------------------------------------------------------------------
\* The helpers called on their own
\* ------------------------------------------------------------------------
\* One behaviour is one call of a helper of new.py: the text holds the
\* argument (one line of value chunks), engine the helper that ran, out
\* what it returned.
MaxCands == 3

\* the arguments the helpers are called with: amount strings, date strings
\* and the raw candidates of a candidate list
HelperArgs ==
    [amount |->
        {sg \o <<"$">> \o w \o <<".">> \o c :
            sg \in {<<>>, <<"-">>},
            w \in {<<"0">>, <<"7">>, <<"3", "5">>, <<"1", "2", "3">>,
                   <<"1", ",", "2", "3", "4">>, <<"5", ",", "0", "0", "0">>,
                   <<"1", "2", ",", "3", "4", "5">>},
            c \in {<<"0", "0">>, <<"4", "5">>, <<"5", "6">>}}
        \cup {<<"(", "1", "2", "3", ".", "4", "5", ")">>,
               <<"1", "2", "3", "4">>, <<"1", "2", ".", "5">>,
               <<"$", " ", "3", "5">>, <<"5", ",", "0", "0", "0">>},
     date |->
        {m \o <<"/">> \o d \o <<"/">> \o y :
            m \in {<<"0", "1">>, <<"0", "3">>, <<"1", "2">>},
            d \in {<<"0", "1">>, <<"1", "5">>, <<"3", "1">>},
            y \in {<<"0", "0">>, <<"2", "4">>, <<"6", "8">>, <<"6", "9">>,
                   <<"9", "9">>}}
        \cup {<<"0", "2", "/", "2", "9", "/", "2", "4">>,
               <<"3", "/", "5", "/", "2", "0", "2", "4">>,
               <<"1", "3", "/", "4", "5", "/", "2", "4">>},
     cand |->
        {<<"$", "5", ",", "0", "0", "0", ".", "0", "0">>,
         <<"$", "6", "0", ",", "0", "0", "0", ".", "0", "0">>,
         <<"7", "0", ",", "0", "0", "0">>,
         <<"$", "4", "9", "9", ".", "9", "9">>,
         <<"5", "0", "0">>,
         <<"3", "5">>,
         <<"$", "0", ".", "0", "0">>,
         <<"(", "1", "2", "3", ".", "4", "5", ")">>}]

\* the argument of a call: a string, or a list of at most MaxCands
\* candidates
HelperInit ==
    /\ text \in {<<(<<Val(a)>>)>> :
                    a \in HelperArgs.amount \cup HelperArgs.date}
                \cup {<<[j \in 1..Len(cs) |-> Val(cs[j])]>> :
                         cs \in UNION {[1..n -> HelperArgs.cand] :
                                          n \in 0..MaxCands}}
    /\ engine = "none"
    /\ out = [kind |-> "none"]

\* _normalize_amount(raw) called on an amount string
NormalizeAmount ==
    /\ engine = "none"
    /\ Len(text[1]) = 1 /\ text[1][1].c \in HelperArgs.amount
    /\ engine' = "_normalize_amount"
    /\ out' = [kind |-> "value", v |-> normalize_amount(text[1][1].c)]
    /\ UNCHANGED text

\* _normalize_date(text_fragment) called on a date string
NormalizeDate ==
    /\ engine = "none"
    /\ Len(text[1]) = 1 /\ text[1][1].c \in HelperArgs.date
    /\ engine' = "_normalize_date"
    /\ out' = [kind |-> "value",
               v |-> normalize_date(LineToks(text[1]), 1, 1,
                                    TokEnd(LineToks(text[1]), 1))]
    /\ UNCHANGED text

\* _best_amount_for_label(label, candidates, avoid_zero, min_value) called
\* on a candidate list; penal says the label contains "limit" or "line"
BestAmount ==
    /\ engine = "none"
    /\ \A j \in 1..Len(text[1]) : text[1][j].c \in HelperArgs.cand
    /\ engine' = "_best_amount_for_label"
    /\ \E penal \in BOOLEAN, avoid_zero \in BOOLEAN,
          min_value \in {0, 1000, 50000} :
          out' = [kind |-> "best", penal |-> penal,
                  avoid_zero |-> avoid_zero, min_value |-> min_value,
                  v |-> best_amount_for_label(
                            penal, [j \in 1..Len(text[1]) |-> text[1][j].c],
                            avoid_zero, min_value)]
    /\ UNCHANGED text

HelperNext == NormalizeAmount \/ NormalizeDate \/ BestAmount

HelperSpec == HelperInit /\ [][HelperNext]_vars

\* ------------------------------------------------------------------------
\* app.py: _parse_bytes on an uploaded file
\* ------------------------------------------------------------------------
\* One behaviour is one call of _parse_bytes: the text is what the uploaded
\* bytes read as, out holds first the functions the parser module
\* provides (HAS_PARSE_BYTES, HAS_PARSE_PATH, HAS_OCR_TEXT, HAS_PARSE_TEXT)
\* and then what the call left behind.
REQUIRED_KEYS ==
    <<"file", "card_provider", "available_credit", "payment_due_date",
      "new_balance", "credit_limit">>

\* what a function of the parser module may do when called for the text:
\* raise, return None, return the ParsedStatement of the text, return a
\* dict with some of the keys, return another object with some attributes
ParserResults(t) ==
    {[t |-> "raise"], [t |-> "none"],
     [t |-> "dict", d |-> [card_provider |-> "Chase"]],
     [t |-> "object", d |-> [new_balance |-> <<"$", "1", ".", "0", "0">>]]}
    \cup (IF parse_statement_text(t).raised THEN {}
          ELSE {[t |-> "dataclass", d |-> parse_statement_text(t).rec]})

\* _normalize_result(obj, filename): the dict built from obj, "file" set
\* to filename when the dict has none, every required key present
normalize_result(obj, filename) ==
    LET base ==
            CASE obj.t = "none" ->
                    [k \in {REQUIRED_KEYS[i] : i \in 1..Len(REQUIRED_KEYS)}
                        |-> None]
              [] obj.t \in {"dataclass", "dict"} -> obj.d
              [] obj.t = "object" ->
                    [k \in {REQUIRED_KEYS[i] : i \in 1..Len(REQUIRED_KEYS)}
                        |-> IF k \in DOMAIN obj.d THEN obj.d[k] ELSE None]
        nofile ==
            CASE obj.t = "none" -> TRUE
              [] obj.t = "dataclass" -> obj.d.file = ""
              [] obj.t \in {"dict", "object"} ->
                    "file" \notin DOMAIN obj.d \/ obj.d.file = ""
        named ==
            IF filename # "" /\ nofile
            THEN [k \in DOMAIN base \cup {"file"} |->
                     IF k = "file" THEN filename ELSE base[k]]
            ELSE base
    IN  [k \in DOMAIN named
               \cup {REQUIRED_KEYS[i] : i \in 1..Len(REQUIRED_KEYS)} |->
            IF k \in DOMAIN named THEN named[k] ELSE None]

\* _parse_bytes(filename, data) for a parser module providing has, in an
\* environment env: env.res is what the parse function does, env.write
\* and env.unlink whether tmp.write / os.unlink succeed, env.ocr_bytes and
\* env.ocr_path what ocr_pdf_to_text does on a BytesIO and on a path.
\* called lists the parser functions called, created and left count the
\* temporary files created and still there at the end.
parse_bytes(has, filename, env) ==
    LET Ended(called, created, left, res) ==
            IF res.t = "raise"
            THEN [kind |-> "raised", exc |-> "Exception", has |-> has,
                  called |-> called, created |-> created, left |-> left]
            ELSE [kind |-> "returned", has |-> has, called |-> called,
                  created |-> created, left |-> left,
                  result |-> normalize_result(res, filename)]
        Failed(exc, called, created, left) ==
            [kind |-> "raised", exc |-> exc, has |-> has, called |-> called,
             created |-> created, left |-> left]
        Unlinked == IF env.unlink THEN 0 ELSE 1
    IN  IF has.bytes
        THEN Ended(<<"parse_pdf_bytes">>, 0, 0, env.res)
        ELSE IF has.path
        THEN (IF ~env.write THEN Failed("OSError", <<>>, 1, 1)
              ELSE Ended(<<"parse_pdf">>, 1, Unlinked, env.res))
        ELSE IF has.ocr /\ has.text
        THEN (IF env.ocr_bytes = "text"
              THEN Ended(<<"ocr_pdf_to_text", "parse_statement_text">>,
                         0, 0, env.res)
              ELSE IF ~env.write
              THEN Failed("OSError", <<"ocr_pdf_to_text">>, 1, 1)
              ELSE IF env.ocr_path = "raise"
              THEN Failed("Exception",
                          <<"ocr_pdf_to_text", "ocr_pdf_to_text">>,
                          1, Unlinked)
              ELSE Ended(<<"ocr_pdf_to_text", "ocr_pdf_to_text",
                           "parse_statement_text">>, 1, Unlinked, env.res))
        ELSE Failed("RuntimeError", <<>>, 0, 0)

\* the module is loaded: any subset of the four functions is provided
AppInit ==
    /\ text \in {<<>>} \cup {<<l>> : l \in LongLines}
    /\ engine = "none"
    /\ out \in {[kind |-> "module", has |-> h] :
                   h \in [bytes : BOOLEAN, path : BOOLEAN,
                          ocr : BOOLEAN, text : BOOLEAN]}

\* _parse_bytes called for an upload
ParseBytes ==
    /\ engine = "none"
    /\ engine' = "_parse_bytes"
    /\ \E filename \in {"uploaded.pdf", "statement.pdf"},
          res \in ParserResults(text),
          write \in BOOLEAN, unlink \in BOOLEAN,
          ocr_bytes \in {"text", "blank", "raise"},
          ocr_path \in {"text", "raise"} :
          out' = parse_bytes(out.has, filename,
                             [res |-> res, write |-> write,
                              unlink |-> unlink, ocr_bytes |-> ocr_bytes,
                              ocr_path |-> ocr_path])
    /\ UNCHANGED text

AppNext == ParseBytes

AppSpec == AppInit /\ [][AppNext]_vars
\* ------------------------------------------------------------------------
\* Properties
\* ------------------------------------------------------------------------
\* out is a record returned by parse_statement_text of new.py
NewRec == engine \in {"new", "main"} /\ out.kind = "record"

\* line l occurs in the text
HasLine(l) == \E i \in 1..Len(text) : text[i] = l

\* the text holds a token of kind k
HasKind(k) ==
    \E i \in 1..Len(text) : \E j \in 1..Len(text[i]) : text[i][j].k = k

\* C1: the credit_limit of every record parse_statement_text (new.py)
\* returns is absent or an amount of at least $100, whether it was
\* extracted or derived from available_credit + new_balance.
C1_GuardrailLimit ==
    NewRec =>
        \/ out.rec.credit_limit = None
        \/ /\ money_to_float(out.rec.credit_limit) # NoFloat
           /\ money_to_float(out.rec.credit_limit)[1] >= 10000

\* a derived limit below $100 ($50.00 + $35.00) was discarded
C1_Witness ==
    /\ NewRec /\ out.post.limit_derived /\ out.post.guard
    /\ out.post.limit_before_guard = <<"$", "8", "5", ".", "0", "0">>
    /\ out.rec.credit_limit = None

\* C2: credit_limit is computed as available_credit + new_balance only when
\* no limit was extracted, available_credit and new_balance were both
\* extracted and new_balance > 0; otherwise the limit stays as extracted, in
\* particular when new_balance is absent or zero.
C2_DerivationSafety ==
    NewRec =>
        LET avl  == money_to_float(out.ext.available_credit)
            bal  == money_to_float(out.ext.new_balance)
            safe == /\ out.ext.credit_limit = None
                    /\ out.ext.available_credit # None
                    /\ out.ext.new_balance # None
                    /\ bal[1] > 0
        IN  /\ out.post.limit_derived => safe
            /\ ~safe => out.post.limit_before_guard = out.ext.credit_limit
            /\ safe => out.post.limit_before_guard
                           = fmt_money(avl[1] + bal[1])

\* a limit was computed from $3,765.44 + $1,234.56
C2_Witness ==
    /\ NewRec /\ out.ext.credit_limit = None
    /\ out.ext.available_credit = <<"$", "3", ",", "7", "6", "5", ".", "4", "4">>
    /\ out.ext.new_balance = <<"$", "1", ",", "2", "3", "4", ".", "5", "6">>
    /\ out.rec.credit_limit = <<"$", "5", ",", "0", "0", "0", ".", "0", "0">>

\* C3: when no available credit was extracted and limit and balance were
\* both extracted with limit >= balance, the final available_credit is
\* limit - balance as Money; when limit < balance or one of them is absent
\* it stays absent.
C3_DeriveAvailable ==
    (NewRec /\ out.ext.available_credit = None) =>
        LET lim == money_to_float(out.ext.credit_limit)
            bal == money_to_float(out.ext.new_balance)
        IN  IF /\ out.ext.credit_limit # None /\ out.ext.new_balance # None
               /\ lim[1] >= bal[1]
            THEN out.rec.available_credit = fmt_money(lim[1] - bal[1])
            ELSE out.rec.available_credit = None

\* the amounts of Scenario A: $5,000.00 - $1,234.56 = $3,765.44 on a Bank
\* of America text that prints no available credit
C3_Witness ==
    /\ NewRec /\ out.rec.card_provider = "Bank of America"
    /\ out.ext.available_credit = None
    /\ out.post.avail_derived
    /\ out.rec.credit_limit = <<"$", "5", ",", "0", "0", "0", ".", "0", "0">>
    /\ out.rec.new_balance = <<"$", "1", ",", "2", "3", "4", ".", "5", "6">>
    /\ out.rec.available_credit = <<"$", "3", ",", "7", "6", "5", ".", "4", "4">>

\* C4: parse_statement_text never raises: an amount float() rejects, a date
\* strptime rejects, or no match at all, shows only as an absent field of
\* the record it returns.
C4_NeverRaises ==
    engine \in {"new", "tp"} => out.kind = "record"

\* a text with an amount float() rejects and a date strptime rejects, both
\* fields absent in the record
C4_Witness ==
    /\ engine = "new" /\ out.kind = "record"
    /\ HasLine(<<Label("New Balance"), Val(<<"-", "(", "1", "2", ")">>)>>)
    /\ HasLine(<<Label("Payment Due Date"), Val(<<"1", "3", "/", "4", "5", "/", "2", "4">>)>>)
    /\ out.rec.new_balance = None
    /\ out.rec.payment_due_date = None

\* the keys of a ParsedStatement
Keys == {"file", "card_provider"} \cup Fields

\* the text holds token t
HasToken(t) ==
    \E i \in 1..Len(text) : \E j \in 1..Len(text[i]) : text[i][j] = t

\* the detection table of the engine that ran
TableOf(e) == IF e = "tp" THEN ISSUER_DETECTORS ELSE PROVIDERS

\* C5 as claimed: every ParsedStatement the program creates has the six
\* keys, no extracted field is the empty string, and card_provider is
\* never absent.
C5_Claim ==
    out.kind \in {"record", "failed"} =>
        /\ DOMAIN out.rec = Keys
        /\ \A f \in Fields : out.rec[f] # <<>>
        /\ out.rec.card_provider \notin {NoName, ""}

\* C5 amended: a record parse_statement_text returns has the six keys, each
\* extracted field absent or a non-empty string, and card_provider the
\* detected issuer or "Unknown", never absent; the record main builds when
\* parse_pdf raises has the six keys, the path as file and card_provider and
\* the four fields absent.
C5_Records ==
    /\ out.kind = "record" =>
          /\ DOMAIN out.rec = Keys
          /\ \A f \in Fields : out.rec[f] # <<>>
          /\ out.rec.card_provider \notin {NoName, ""}
          /\ out.rec.card_provider = "Unknown"
                <=> ~\E i \in 1..Len(TableOf(engine)) :
                        AnyMatch(TableOf(engine)[i].pats, text)
          /\ out.rec.file = IF engine = "main" THEN Path ELSE ""
    /\ out.kind = "failed" =>
          /\ DOMAIN out.rec = Keys
          /\ out.rec.file = Path
          /\ out.rec.card_provider = NoName
          /\ \A f \in Fields : out.rec[f] = None

\* main has built the record of its except branch
C5_Witness ==
    /\ engine = "main" /\ out.kind = "failed"
    /\ out.rec.card_provider = NoName

\* C6: for the empty text and for every text without issuer marker and
\* without field label, parse_statement_text (new.py) returns card_provider
\* "Unknown" and the four fields absent.
C6_NothingFromNothing ==
    (NewRec /\ ~HasKind("issuer") /\ ~HasKind("label")) =>
        /\ out.rec.card_provider = "Unknown"
        /\ \A f \in Fields : out.rec[f] = None

\* a text of amounts, a date and a page number, no marker and no label
C6_Witness ==
    /\ NewRec /\ ~HasKind("issuer") /\ ~HasKind("label")
    /\ HasLine(<<Val(<<"$", "1", ",", "2", "3", "4", ".", "5", "6">>)>>)
    /\ HasLine(<<Val(<<"0", "3", "/", "1", "5", "/", "2", "4">>)>>)
    /\ HasLine(<<Word("Page"), Val(<<"3", "5">>)>>)
    /\ out.rec.card_provider = "Unknown"
    /\ \A f \in Fields : out.rec[f] = None

\* the fixed order of the issuers
Priority ==
    <<"Bank of America", "Chase", "American Express", "Citi",
      "Capital One", "Commonwealth Bank">>

\* C7: issuer detection returns the first issuer, in the fixed table order,
\* one of whose detection patterns matches the text, wherever the markers
\* stand in the text, and "Unknown" is reported when none matches; a text
\* with a Chase marker and a Bank of America marker is Bank of America.
C7_IssuerPriority ==
    out.kind = "record" =>
        LET table == TableOf(engine)
            hits  == {i \in 1..Len(table) : AnyMatch(table[i].pats, text)}
        IN  /\ \A i \in 1..Len(table) : table[i].name = Priority[i]
            /\ out.rec.card_provider =
                  IF hits = {} THEN "Unknown"
                  ELSE Priority[CHOOSE i \in hits : \A k \in hits : i <= k]
            /\ (HasToken(Issuer("Chase"))
                /\ HasToken(Issuer("Bank of America")))
                  => out.rec.card_provider = "Bank of America"

\* the Chase marker stands first in the text, Bank of America is returned
C7_Witness ==
    /\ out.kind = "record"
    /\ Len(text) >= 2
    /\ text[1] = <<Issuer("Chase")>>
    /\ text[2] = <<Issuer("Bank of America")>>
    /\ out.rec.card_provider = "Bank of America"

\* what the issuer-specific DirectCapture matchers of the detected issuer
\* yield for field f on the text, in the engine that ran
IssuerDirect(f) ==
    IF engine = "tp"
    THEN find_first_match(text,
             tp_ISSUER_SPECIFIC(OrUnknown(detect_issuer(text)))[f])
    ELSE IF f = "payment_due_date"
    THEN find_first_date(text,
             ISSUER_SPECIFIC(OrUnknown(detect_provider(text)))[f])
    ELSE find_first_amount(text,
             ISSUER_SPECIFIC(OrUnknown(detect_provider(text)))[f])

\* what the global DirectCapture matchers yield for field f
GlobalDirect(f) ==
    IF engine = "tp" THEN find_first_match(text, tp_PATTERNS[f])
    ELSE IF f = "payment_due_date" THEN find_first_date(text, PATTERNS[f])
    ELSE find_first_amount(text, PATTERNS[f])

\* what the global LabelWindow labels of new.py yield for field f
GlobalWindow(f) ==
    CASE f = "new_balance" ->
            extract_label_amount_lines(text, LBL_NEWBAL, 3, FALSE, 0)
      [] f = "credit_limit" ->
            extract_label_amount_lines(text, LBL_LIMIT, 3, TRUE, 50000)
      [] f = "available_credit" ->
            extract_label_amount_lines(text, LBL_AVAIL, 3, FALSE, 0)
      [] f = "payment_due_date" ->
            extract_label_date_lines(text, LBL_DUEDATE, 2)

C9_Claim ==
    NewRec =>
        \A f \in Fields :
            out.ext[f] = None =>
                /\ ~Truthy(IssuerDirect(f)) /\ ~Truthy(GlobalDirect(f))
                /\ ~Truthy(GlobalWindow(f))

\* the text is classified Commonwealth Bank and the line
\* "Closing balance $2,000.00" is its only line with that label
ScenarioD ==
    /\ OrUnknown(detect_provider(text)) = "Commonwealth Bank"
    /\ HasLine(<<Label("Closing balance"), Val(<<"$", "2", ",", "0", "0", "0", ".", "0", "0">>)>>)
    /\ \A i \in 1..Len(text) :
          (\E j \in 1..Len(text[i]) : text[i][j] = Label("Closing balance"))
             => text[i] = <<Label("Closing balance"),
                            Val(<<"$", "2", ",", "0", "0", "0", ".", "0", "0">>)>>

\* C10 as claimed: with a Commonwealth Bank marker and the line
\* "Closing balance $2,000.00" new_balance is "$2,000.00" and the
\* issuer-specific LabelWindow stage produces it.
C10_Claim ==
    (NewRec /\ ScenarioD) =>
        /\ out.rec.new_balance = <<"$", "2", ",", "0", "0", "0", ".", "0", "0">>
        /\ out.stage.new_balance = "issuer_window"

\* C10 amended: new_balance is "$2,000.00" and the stage that produces it
\* is the issuer-specific DirectCapture stage, not a global stage.
C10_ScenarioD ==
    (NewRec /\ ScenarioD) =>
        /\ out.rec.new_balance = <<"$", "2", ",", "0", "0", "0", ".", "0", "0">>
        /\ out.stage.new_balance = "issuer_direct"
        /\ IssuerDirect("new_balance") = <<"$", "2", ",", "0", "0", "0", ".", "0", "0">>

\* Scenario D has run
C10_Witness ==
    /\ engine = "new" /\ out.kind = "record" /\ ScenarioD
    /\ out.rec.card_provider = "Commonwealth Bank"
    /\ out.rec.new_balance = <<"$", "2", ",", "0", "0", "0", ".", "0", "0">>
    /\ out.stage.new_balance = "issuer_direct"

\* a value chunk that is a bare integer of one or two digits
BareShort(c) == Len(c) \in 1..2 /\ \A i \in 1..Len(c) : c[i] \in Digits

\* every value chunk of the text is a bare integer of one or two digits
OnlyBareShort ==
    /\ HasKind("val")
    /\ \A i \in 1..Len(text) : \A j \in 1..Len(text[i]) :
          text[i][j].k = "val" => BareShort(text[i][j].c)

\* C11: in both engines (new.py and tp.py) a monetary amount (credit_limit,
\* new_balance, available_credit) whose extracted raw value is a bare
\* integer of one or two digits is discarded: the field of the returned
\* record is absent.
C11_Claim ==
    (engine \in {"new", "tp"} /\ out.kind = "record" /\ OnlyBareShort) =>
        \A f \in {"credit_limit", "new_balance", "available_credit"} :
            out.rec[f] = None

\* the monetary fields of a record
MoneyFields == {"credit_limit", "new_balance", "available_credit"}

\* v is in canonical Money form: an optional minus, "$", one to three
\* digits, groups of a comma and three digits, "." and two digits
CanonicalMoney(v) ==
    LET u == IF v # <<>> /\ v[1] = "-" THEN Tail(v) ELSE v
        n == Len(u)
        g == (n - 4) % 4
    IN  /\ n >= 5
        /\ u[1] = "$"
        /\ u[n - 2] = "."
        /\ u[n - 1] \in Digits /\ u[n] \in Digits
        /\ g \in 1..3
        /\ \A i \in 1..(n - 4) :
              IF i > g /\ (i - g) % 4 = 1 THEN u[i + 1] = ","
              ELSE u[i + 1] \in Digits

\* C12: every monetary value of a record parse_statement_text (new.py)
\* returns, extracted or derived, is in canonical Money form
\* [-]$D{1,3}(,D{3})*.DD.
C12_Claim ==
    NewRec => \A f \in MoneyFields :
                 out.rec[f] = None \/ CanonicalMoney(out.rec[f])

\* d is a date in canonical MM/DD/YY form
CanonicalDate(d) ==
    /\ Len(d) = 8 /\ d[3] = "/" /\ d[6] = "/"
    /\ \A i \in {1, 2, 4, 5, 7, 8} : d[i] \in Digits
    /\ DigitsVal(SubSeq(d, 1, 2), 0) \in 1..12
    /\ DigitsVal(SubSeq(d, 4, 5), 0) >= 1
    /\ DigitsVal(SubSeq(d, 4, 5), 0)
          <= (IF DigitsVal(SubSeq(d, 1, 2), 0) = 2 THEN 28
              ELSE IF DigitsVal(SubSeq(d, 1, 2), 0) \in {4, 6, 9, 11} THEN 30
              ELSE 31)

\* C13: normalisation is idempotent on canonical values:
\* _normalize_amount of a canonical Money string, negative ones such as
\* "-$123.45" included, returns that string, and _normalize_date of a
\* canonical MM/DD/YY string returns that string.
C13_Claim ==
    /\ (engine = "_normalize_amount" /\ CanonicalMoney(text[1][1].c))
          => out.v = text[1][1].c
    /\ (engine = "_normalize_date" /\ CanonicalDate(text[1][1].c))
          => out.v = text[1][1].c

\* C14: post-processing runs each step once, in the order derive limit,
\* derive available credit, guardrail: both derivations read the extracted
\* values, the guardrail is applied to the limit the derivations left (a
\* derived limit included), and once the guardrail has discarded the limit
\* nothing is derived again.
C14_PostOrder ==
    NewRec =>
        LET lim == money_to_float(out.ext.credit_limit)
            bal == money_to_float(out.ext.new_balance)
            avl == money_to_float(out.ext.available_credit)
            dl == /\ out.ext.credit_limit = None
                  /\ avl # NoFloat /\ bal # NoFloat /\ bal[1] > 0
            da == /\ out.ext.available_credit = None
                  /\ lim # NoFloat /\ bal # NoFloat /\ lim[1] >= bal[1]
            cl4 == IF dl THEN fmt_money(avl[1] + bal[1])
                   ELSE out.ext.credit_limit
            low == /\ cl4 # None /\ money_to_float(cl4) # NoFloat
                   /\ money_to_float(cl4)[1] < 10000
        IN  /\ out.post.limit_before_guard = cl4
            /\ out.post.guard = low
            /\ out.rec.credit_limit = IF low THEN None ELSE cl4
            /\ out.rec.available_credit =
                  IF da THEN fmt_money(lim[1] - bal[1])
                  ELSE out.ext.available_credit

\* available credit $25.00 was derived from the extracted limit $60.00,
\* the guardrail then discarded that limit, and no limit was derived again
\* from $25.00 + $35.00
C14_Witness ==
    /\ NewRec
    /\ out.ext.credit_limit = <<"$", "6", "0", ".", "0", "0">>
    /\ out.ext.new_balance = <<"$", "3", "5", ".", "0", "0">>
    /\ out.ext.available_credit = None
    /\ out.post.avail_derived /\ out.post.guard
    /\ out.rec.available_credit = <<"$", "2", "5", ".", "0", "0">>
    /\ out.rec.credit_limit = None

NoPenalty(tab) == [i \in 1..Len(tab) |-> [tab[i] EXCEPT !.pen = FALSE]]

\* C16: the under-$500 score penalty is applied only when the field is the
\* credit limit: the value found for available_credit or new_balance, by a
\* DirectCapture pattern or a LabelWindow label, is the one that scoring
\* without the penalty finds.
C16_Claim ==
    NewRec =>
        /\ \A f \in {"available_credit", "new_balance"} :
              out.stage[f] = "global_direct" =>
                  out.ext[f] = find_first_amount(text, NoPenalty(PATTERNS[f]))
        /\ out.stage.available_credit = "global_window" =>
              out.ext.available_credit =
                  extract_label_amount_lines(text, NoPenalty(LBL_AVAIL), 3,
                                             FALSE, 0)
        /\ out.stage.new_balance = "global_window" =>
              out.ext.new_balance =
                  extract_label_amount_lines(text, NoPenalty(LBL_NEWBAL), 3,
                                             FALSE, 0)

\* what the LabelWindow scan over the labels lbls yields when it takes the
\* first line and, on it, the first label whose candidates leave a value
WindowFirst(lbls, lines_ahead, avoid_zero, min_value) ==
    LET BestAt(i, r) ==
            best_amount_for_label(
                lbls[r].pen,
                collect_amounts_near(
                    text, i, FirstLabelEnd(lbls[r], LineToks(text[i])),
                    lines_ahead),
                avoid_zero, min_value)
        hits == {h \in (1..Len(text)) \X (1..Len(lbls)) :
                    /\ FirstLabelEnd(lbls[h[2]], LineToks(text[h[1]])) # 0
                    /\ Truthy(BestAt(h[1], h[2]))}
        FirstHit == CHOOSE h \in hits :
                        \A g \in hits :
                            h[1] < g[1] \/ (h[1] = g[1] /\ h[2] <= g[2])
    IN  IF hits = {} THEN None ELSE BestAt(FirstHit[1], FirstHit[2])

\* C17: a credit_limit produced by a LabelWindow stage of new.py is never
\* zero and never below $500; for a Bank of America statement a new_balance
\* produced by the LabelWindow stage is never zero and never below $10; a
\* label all of whose candidates are removed by the filters yields nothing
\* and the scan goes on with the next label or line.
C17_WindowFilters ==
    NewRec =>
        /\ out.stage.credit_limit \in {"issuer_window", "global_window"} =>
              /\ money_to_float(out.ext.credit_limit) # NoFloat
              /\ money_to_float(out.ext.credit_limit)[1] >= 50000
              /\ out.ext.credit_limit =
                    WindowFirst(IF out.stage.credit_limit = "issuer_window"
                                THEN LBL_BOA_LIMIT ELSE LBL_LIMIT,
                                3, TRUE, 50000)
        /\ (/\ out.rec.card_provider = "Bank of America"
            /\ out.stage.new_balance = "issuer_window") =>
              /\ money_to_float(out.ext.new_balance) # NoFloat
              /\ money_to_float(out.ext.new_balance)[1] >= 1000
              /\ out.ext.new_balance = WindowFirst(LBL_BOA_NEWBAL, 2, TRUE, 1000)

\* the only candidate of the label on line 1, "$0.00", was removed, and
\* the scan went on to the label on line 5, which gave the limit
C17_Witness ==
    /\ NewRec /\ Len(text) = 5
    /\ text[1] = <<Label("Credit Limit"), Val(<<"$", "0", ".", "0", "0">>)>>
    /\ \A i \in 2..4 : text[i] = <<Word("Page")>>
    /\ out.stage.credit_limit = "global_window"
    /\ out.ext.credit_limit = <<"$", "5", ",", "0", "0", "0", ".", "0", "0">>

\* the line "Payment Due Date 13/45/24", and a date that parses
BadDueLine ==
    <<Label("Payment Due Date"), Val(<<"1", "3", "/", "4", "5", "/", "2", "4">>)>>
GoodDate == <<"0", "3", "/", "1", "5", "/", "2", "4">>

\* C18: an unparseable date-shaped candidate is skipped rather than ending
\* the attempt: when the text after the first due-date label holds
\* "13/45/24" and then, on the same line or the next, a date that parses,
\* that later date is returned in MM/DD/YY form.
C18_Claim ==
    (/\ NewRec /\ Len(text) >= 1
     /\ \/ text[1] = BadDueLine \o <<Val(GoodDate)>>
        \/ /\ Len(text) >= 2
           /\ text[1] = BadDueLine /\ text[2] = <<Val(GoodDate)>>)
        => out.rec.payment_due_date = GoodDate

\* the tokens a label match ending in token je of line i may draw on: the
\* rest of line i and the lines i+1 .. i+lines_ahead
AfterLabel(i, je, lines_ahead) ==
    SubSeq(text[i], je + 1, Len(text[i]))
    \o LinesToks(text, i + 1, i + lines_ahead)

\* value v of field f is a candidate of the tokens toks, normalised
IsCandidateOf(f, v, toks) ==
    IF f = "payment_due_date"
    THEN \E j \in 1..Len(toks) :
            /\ toks[j].k = "val"
            /\ v = normalize_date(LineToks(<<toks[j]>>), 1, 1,
                                  Len(toks[j].c) + 1)
    ELSE \E j \in 1..Len(CandsOf(toks)) :
            v = normalize_amount(CandsOf(toks)[j])

\* the value of field f comes from the window of a match of a label of lbls
FromWindow(f, lbls, lines_ahead) ==
    \E i \in 1..Len(text), r \in 1..Len(lbls) :
        /\ FirstLabelEnd(lbls[r], LineToks(text[i])) # 0
        /\ IsCandidateOf(f, out.ext[f],
                         AfterLabel(i, FirstLabelEnd(lbls[r],
                                                     LineToks(text[i])),
                                    lines_ahead))

\* C19: in a LabelWindow stage of new.py, for Money and Date fields alike,
\* the value found for a label match on line i is a candidate from the
\* part of line i after the label or from lines i+1 .. i+lines_ahead,
\* never from text before the label, an earlier line or a line further on.
C19_Claim ==
    NewRec =>
        /\ out.stage.new_balance = "issuer_window" =>
              FromWindow("new_balance", LBL_BOA_NEWBAL, 2)
        /\ out.stage.credit_limit = "issuer_window" =>
              FromWindow("credit_limit", LBL_BOA_LIMIT, 3)
        /\ out.stage.available_credit = "issuer_window" =>
              FromWindow("available_credit", LBL_BOA_AVAIL, 3)
        /\ out.stage.payment_due_date = "issuer_window" =>
              FromWindow("payment_due_date", LBL_BOA_DUE, 1)
        /\ out.stage.new_balance = "global_window" =>
              FromWindow("new_balance", LBL_NEWBAL, 3)
        /\ out.stage.credit_limit = "global_window" =>
              FromWindow("credit_limit", LBL_LIMIT, 3)
        /\ out.stage.available_credit = "global_window" =>
              FromWindow("available_credit", LBL_AVAIL, 3)
        /\ out.stage.payment_due_date = "global_window" =>
              FromWindow("payment_due_date", LBL_DUEDATE, 2)

\* C20: post-processing of parse_statement_text (new.py) never changes a
\* value that extraction produced, except that the guardrail may set
\* credit_limit to absent: an extracted available_credit or credit_limit is
\* never replaced by a derived one, new_balance and payment_due_date are
\* returned as extracted, and at most one of the two derivations fires.
C20_Frame ==
    NewRec =>
        /\ out.rec.new_balance = out.ext.new_balance
        /\ out.rec.payment_due_date = out.ext.payment_due_date
        /\ out.ext.available_credit # None =>
              out.rec.available_credit = out.ext.available_credit
        /\ out.ext.credit_limit # None =>
              /\ out.rec.credit_limit \in {out.ext.credit_limit, None}
              /\ out.post.limit_before_guard = out.ext.credit_limit
        /\ ~(/\ out.ext.credit_limit = None
             /\ out.post.limit_before_guard # None
             /\ out.ext.available_credit = None
             /\ out.rec.available_credit # None)

\* limit, available credit and a positive balance were all extracted, with
\* $50.00 + $35.00 and $5,000.00 - $35.00 both different from what was
\* extracted, and the record holds the extracted values
C20_Witness ==
    /\ NewRec
    /\ out.ext.credit_limit = <<"$", "5", ",", "0", "0", "0", ".", "0", "0">>
    /\ out.ext.available_credit = <<"$", "5", "0", ".", "0", "0">>
    /\ out.ext.new_balance = <<"$", "3", "5", ".", "0", "0">>
    /\ out.rec.credit_limit = out.ext.credit_limit
    /\ out.rec.available_credit = out.ext.available_credit
    /\ out.rec.new_balance = out.ext.new_balance

\* C21: whenever the available_credit of the record parse_statement_text
\* (new.py) returns was derived, the record has a credit_limit and
\* credit_limit = available_credit + new_balance: a derived
\* available_credit never stands next to a limit the guardrail discarded.
C21_Claim ==
    (/\ NewRec
     /\ out.ext.available_credit = None
     /\ out.rec.available_credit # None) =>
        /\ out.rec.credit_limit # None
        /\ money_to_float(out.rec.credit_limit)[1] =
              money_to_float(out.rec.available_credit)[1]
              + money_to_float(out.rec.new_balance)[1]

\* every value chunk of the text is written in parentheses or with a minus
OnlySigned ==
    /\ HasKind("val")
    /\ \A i \in 1..Len(text) : \A j \in 1..Len(text[i]) :
          text[i][j].k = "val" =>
              \E n \in 1..2 : At(text[i][j].c, n) \in {"(", "-"}

\* C22: every monetary field of a record parse_statement_text (new.py)
\* returns reads as a number >= 0; a candidate in parentheses or with a
\* minus sign is never selected by a DirectCapture or LabelWindow stage,
\* and no derivation produces a negative amount.
C22_Claim ==
    NewRec =>
        /\ \A f \in MoneyFields :
              out.rec[f] # None =>
                  /\ money_to_float(out.rec[f]) # NoFloat
                  /\ money_to_float(out.rec[f])[1] >= 0
        /\ OnlySigned => \A f \in MoneyFields : out.rec[f] = None

\* C23: _parse_bytes (app.py) takes the first strategy the parser module
\* provides, in the order parse_pdf_bytes, parse_pdf on a temporary file,
\* ocr_pdf_to_text + parse_statement_text, and no other; it raises
\* RuntimeError when none is available; every temporary file it created is
\* deleted when it returns or lets an exception through; its result holds
\* all six required keys.
C23_Claim ==
    engine = "_parse_bytes" =>
        /\ \A i \in 1..Len(out.called) :
              out.called[i] \in
                  (IF out.has.bytes THEN {"parse_pdf_bytes"}
                   ELSE IF out.has.path THEN {"parse_pdf"}
                   ELSE {"ocr_pdf_to_text", "parse_statement_text"})
        /\ out.kind = "returned" =>
              /\ out.called # <<>>
              /\ out.called[Len(out.called)] # "ocr_pdf_to_text"
        /\ (~out.has.bytes /\ ~out.has.path
            /\ ~(out.has.ocr /\ out.has.text)) <=>
              (out.kind = "raised" /\ out.exc = "RuntimeError")
        /\ out.left = 0
        /\ out.kind = "returned" =>
              \A i \in 1..Len(REQUIRED_KEYS) :
                  REQUIRED_KEYS[i] \in DOMAIN out.result

====
